---- MODULE Spec2Model ----
(***************************************************************************)
(* Model of the home-relay core:                                           *)
(*   app/services/mqtt_service.py  (bridge client, request correlation,    *)
(*                                  sensor roles)                          *)
(*   app/services/sse_manager.py   (broadcast fan-out)                     *)
(*   app/services/notification_service.py  (events, dismissals, scheduler) *)
(* Each component has its own specification over the shared variables:     *)
(*   SpecReq     - _send_bridge_request against on_message                 *)
(*   SpecSensor  - connection, subscriptions, roles and sensor readings    *)
(*   SpecSSE     - SSEManager.broadcast / subscribe                        *)
(*   SpecStore   - add_event / delete_event / dismiss_event on the tables  *)
(*   SpecDue     - the due set while time passes                           *)
(*   SpecSched   - _scheduler_loop, with fairness of the scheduler thread  *)
(*   SpecHist    - a role's history over more than HISTORY_SIZE readings   *)
(*   SpecRead    - sensor_response against deliveries, roles and time      *)
(*   SpecCache   - the sensor cache over failing writes and restarts       *)
(*   SpecLoop    - the connection loop of the MQTT thread, with fairness   *)
(*   SpecSubs    - update_subscriptions and set_sensor_config's answer     *)
(*   SpecStream  - subscribe() generators as their consumers see them      *)
(*   SpecTrend   - get_trend on bounded histories                          *)
(*   SpecApi     - the notification operations with the type preferences   *)
(*   SpecPush    - sensor deliveries while viewers are subscribed          *)
(*   SpecRouter  - the sensors router's status and devices routes          *)
(*   SpecRole    - deliveries, role changes and restarts                   *)
(*   SpecNotify  - _check_notifications against get_due_notifications      *)
(*   SpecDrop    - a subscriber removed for a full queue                   *)
(***************************************************************************)
EXTENDS Integers, Sequences, FiniteSets, TLC

\* ---------------------------------------------------------------- bounds
MaxTimeout == 1      \* largest timeout argument, in clock ticks
MaxReadings == 1     \* sensor messages delivered to on_message
MaxBroadcasts == 11  \* calls of SSEManager.broadcast
MaxDeliveries == 62  \* sensor messages delivered while the history fills
MaxTicks == 3        \* how far the sensor clock runs, in cache ages

Calls == {1, 2}      \* the calls of _send_bridge_request
TxIds == {1, 2}      \* the values _generate_transaction_id returns
Timeouts == 1..MaxTimeout

\* ------------------------------------------------------------- constants
NoTx == 0            \* a response without a "transaction" field
Unsolicited == 0     \* body of a response that answers no request of ours
NoCall == 0          \* no threading.Event stored under the key
NoMsg == [transaction |-> -1, body |-> -1]
HISTORY_SIZE == 60   \* deque(maxlen=HISTORY_SIZE)
MAX_CACHE_AGE == 5400  \* 90 * 60 seconds
NotNumber == -999    \* a field value that is null or not a number
QueueMax == 10       \* queue.Queue(maxsize=10)
NoThread == 0        \* SSEManager._lock is free

\* A bridge response: the transaction it echoes and the request it answers.
Msgs == [transaction : TxIds \cup {NoTx}, body : Calls \cup {Unsolicited}]

VARIABLES
  \* --- mqtt_service.py module state
  mqtt_connected,      \* mqtt_connected
  sensor_config,       \* sensor_config: role -> device name, unit
  subscribed_topics,   \* subscribed_topics
  pending_requests,    \* _pending_requests: transaction -> Event (its call)
  request_results,     \* _request_results: transaction -> response
  \* --- transport (broker side)
  brokerSubs,          \* topics the broker delivers on the live connection
  net,                 \* bridge responses in flight
  atBridge,            \* calls whose request reached the bridge
  replied,             \* calls whose request the bridge has answered
  \* --- one _send_bridge_request call per element of Calls
  pc,                  \* position of the call
  txid,                \* transaction_id local
  evset,               \* threading.Event flag of the call
  remaining,           \* ticks left of the timeout of event.wait
  ret,                 \* returned outcome
  \* --- on_message (delivery thread), bridge-response branch
  msgpc,               \* position of the callback
  msgcur,              \* the message being handled
  \* --- history of the run
  delivered,           \* call -> responses with its id handled while pending
  completedBy,         \* call -> response whose handling set its event
  late,                \* responses handed to on_message after their request expired
  registered,          \* call -> it stored a pending transaction
  publishedBy,         \* call -> it called publish
  \* --- sensor state (mqtt_service.py)
  sensors,             \* sensors: role -> [current, history]
  cache,               \* sensor_cache table: rows [role, temperature, ...]
  saved_config,        \* "climate" section of the saved dashboard config
  now,                 \* time.time() (no operation here lets time pass)
  readings,            \* sensor messages delivered so far
  \* --- set_sensor_config call (request thread)
  cfgpc,               \* position of the call
  cfgargs,             \* its arguments
  \* --- on_message (delivery thread), sensor branch
  smsgpc,              \* position of the callback
  smsgkey,             \* key local
  smsgreading,         \* reading local
  \* --- SSEManager (sse_manager.py)
  subscribers,         \* _subscribers: list of queues, a queue named by its stream
  sselock,             \* _lock holder
  queue,               \* stream -> content of its queue.Queue
  spc,                 \* stream -> position of its subscribe generator
  bpc,                 \* thread -> position of its broadcast call
  bmsg,                \* thread -> encoded message
  bidx,                \* thread -> index of the "for q in self._subscribers" loop
  bdead,               \* thread -> dead_queues
  bcount,              \* broadcasts made so far
  \* --- history of the run
  visits,              \* stream -> broadcasts that reached its queue
  nread,               \* stream -> messages its generator has taken
  regAt,               \* stream -> broadcasts made before it registered
  dropped,             \* streams a broadcast removed for a full queue
  \* --- notification_service.py: the tables of notifications.db
  events,              \* events: rows [id, type, name, due_date, data]
  sqlite_sequence,     \* AUTOINCREMENT: the largest id ever assigned
  dismissed,           \* dismissed: event_id -> dismissed_until
  type_preferences,    \* type_preferences: type -> enabled
  clock,               \* datetime.now(), in hours
  advances,            \* steps of the clock so far
  \* --- _scheduler_loop (scheduler thread)
  schedpc,             \* position of the loop
  scheduler_stop,      \* _scheduler_stop is set
  schedRaised,         \* the last _check_notifications raised
  evalFlip,            \* flips at every evaluation of the loop
  broadcasted,         \* the notification list of the last _broadcast call
  \* --- history of the run
  dismissHist,         \* event_id -> the dismiss_event call in force
  arrivals,            \* role -> the readings on_message appended, in order
  \* --- the MQTT thread (start_mqtt)
  looppc,              \* position of loop()
  logged_failure,      \* loop(): the failure was logged already
  attempts,            \* connect calls made so far
  \* --- calls made on the MQTT client
  mqttCalls,           \* subscribe/unsubscribe calls of the last update_subscriptions
  \* --- subscribe() generators as their consumers see them
  initial_message,     \* stream -> the initial_message argument of subscribe()
  sinit,               \* stream -> the initial message was dealt with
  yielded,             \* stream -> what the generator yielded, in order
  \* --- get_trend calls
  trend_args,          \* get_trend: the arguments of the call
  trend,               \* get_trend: the value returned
  \* --- results of calls
  cfg_result,          \* what the last set_sensor_config returned
  api_result,          \* what the last notification operation returned
  \* --- routers/sensors.py
  available_devices,   \* mqtt_service.available_devices
  status_result,       \* what the last GET /sensors/status returned
  devices_result       \* what the last GET /sensors/devices returned

mapV == <<pending_requests, request_results>>
callV == <<pc, txid, evset, remaining, ret>>
cbV == <<msgpc, msgcur>>
histV == <<delivered, completedBy, late, registered, publishedBy>>
envV == <<net, atBridge, replied>>
reqVars == <<mapV, callV, cbV, histV, envV>>
connVars == <<mqtt_connected, subscribed_topics, brokerSubs>>
sensorVars == <<sensors, cache, saved_config, now, readings, cfgpc, cfgargs,
                smsgpc, smsgkey, smsgreading>>
sseVars == <<subscribers, sselock, queue, spc, bpc, bmsg, bidx, bdead, bcount,
             visits, nread, regAt, dropped>>
storeVars == <<events, sqlite_sequence, dismissed, type_preferences>>
schedVars == <<schedpc, scheduler_stop, schedRaised, evalFlip, broadcasted>>
notifVars == <<storeVars, clock, advances, schedVars, dismissHist>>
readVars == <<arrivals>>
loopVars == <<looppc, logged_failure, attempts>>
subsVars == <<mqttCalls>>
streamVars == <<initial_message, sinit, yielded>>
trendVars == <<trend_args, trend>>
retVars == <<cfg_result, api_result>>
routerVars == <<available_devices, status_result, devices_result>>
lateVars == <<routerVars>>
extraVars == <<notifVars, readVars, loopVars, subsVars, streamVars, trendVars, retVars, lateVars>>
\* all variables but one group
loopFrame == <<notifVars, readVars, subsVars, streamVars, trendVars, retVars, lateVars>>
subsFrame ==
  <<reqVars, sseVars, notifVars, readVars, loopVars, streamVars, trendVars,
    retVars, lateVars>>
streamFrame ==
  <<connVars, sensor_config, reqVars, sensorVars, notifVars, readVars,
    loopVars, subsVars, trendVars, retVars, lateVars>>
moreVars == <<loopVars, subsVars, streamVars, trendVars, retVars, lateVars>>
vars == <<connVars, sensor_config, reqVars, sensorVars, sseVars, extraVars>>

\* ------------------------------------------------- connection and topics
Roles == <<"indoor", "outdoor">>
RoleSet == {"indoor", "outdoor"}
Devices == {"d1", "d2"}
NoDevice == ""

BridgeTopics == {"zigbee2mqtt/bridge/devices", "zigbee2mqtt/bridge/info",
                 "zigbee2mqtt/bridge/state", "zigbee2mqtt/bridge/response/#",
                 "zigbee2mqtt/bridge/event"}

get_topic_for_device(friendly_name) == "zigbee2mqtt/" \o friendly_name

\* needed_topics of update_subscriptions
NeededTopics(cfg) ==
  {get_topic_for_device(cfg[r]) : r \in {x \in RoleSet : cfg[x] # NoDevice}}

\* faulty variant: every topic subscribed so far is unsubscribed
ToUnsubscribeAll(subscribed, needed) == subscribed

\* line 244: subscribed_topics - needed_topics
ToUnsubscribe(subscribed, needed) == subscribed \ needed

\* line 249: needed_topics - subscribed_topics
ToSubscribe(subscribed, needed) == needed \ subscribed

\* update_subscriptions(): [subscribed, broker] after the call, and the
\* topics of its unsubscribe and subscribe calls
update_subscriptions(connected, cfg, subscribed, broker) ==
  IF ~connected
  THEN [subscribed |-> subscribed, broker |-> broker, unsub |-> {}, sub |-> {}]
  ELSE LET needed == NeededTopics(cfg)
           unsub == ToUnsubscribe(subscribed, needed)
           sub == ToSubscribe(subscribed, needed)
       IN [subscribed |-> needed, broker |-> (broker \ unsub) \cup sub,
           unsub |-> unsub, sub |-> sub]

\* on_connect(rc): the broker accepted (rc = 0) or refused the connection
on_connect(rc) ==
  /\ ~mqtt_connected
  /\ mqtt_connected' = (rc = 0)
  /\ IF rc = 0
     THEN LET u == update_subscriptions(TRUE, sensor_config, subscribed_topics,
                                        brokerSubs \cup BridgeTopics)
          IN /\ subscribed_topics' = u.subscribed
             /\ brokerSubs' = u.broker
     ELSE UNCHANGED <<subscribed_topics, brokerSubs>>

\* The connection drops: the broker forgets the session's subscriptions
\* (clean session) and the client runs on_disconnect.
on_disconnect ==
  /\ mqtt_connected
  /\ mqtt_connected' = FALSE
  /\ brokerSubs' = {}
  /\ UNCHANGED subscribed_topics

\* ------------------------------------------------- _send_bridge_request
\* Every "with _request_lock:" block is one step: the lock is never held
\* across a wait or a publish.
Outcome(kind, data) == [outcome |-> kind, data |-> data]
NoReturn == Outcome("none", NoMsg)
NotConnected == Outcome("MQTT not connected", NoMsg)
TimedOut == Outcome("Request timed out", NoMsg)
EmptyResult == Outcome("empty", NoMsg)
Reply(m) == Outcome("reply", m)

\* _generate_transaction_id(): the first 8 hex digits of a random uuid4
GenerateTransactionId == TxIds

\* dict.pop(key, default) on a map that stores NoMsg / NoCall for "absent"
Pop(map, key, absent) == [map EXCEPT ![key] = absent]

\* line 504-512: the connection check; then a fresh id and
\* event = Event(); with _request_lock: _pending_requests[id] = event
ReqStart(c) ==
  /\ pc[c] = "idle"
  /\ IF ~mqtt_connected
     THEN /\ ret' = [ret EXCEPT ![c] = NotConnected]
          /\ pc' = [pc EXCEPT ![c] = "done"]
          /\ UNCHANGED <<txid, remaining, pending_requests, registered>>
     ELSE /\ \E id \in GenerateTransactionId, t \in Timeouts :
               /\ txid' = [txid EXCEPT ![c] = id]
               /\ remaining' = [remaining EXCEPT ![c] = t]
               /\ pending_requests' = [pending_requests EXCEPT ![id] = c]
          /\ registered' = [registered EXCEPT ![c] = TRUE]
          /\ pc' = [pc EXCEPT ![c] = "publish"]
          /\ UNCHANGED ret
  /\ UNCHANGED <<request_results, evset, cbV, delivered, completedBy, late,
                 publishedBy, envV>>

\* line 515: mqtt_client.publish(topic, json.dumps(payload)); the request
\* reaches the bridge only over a live connection
ReqPublish(c) ==
  /\ pc[c] = "publish"
  /\ publishedBy' = [publishedBy EXCEPT ![c] = TRUE]
  /\ atBridge' = IF mqtt_connected THEN atBridge \cup {c} ELSE atBridge
  /\ pc' = [pc EXCEPT ![c] = "wait"]
  /\ UNCHANGED <<mapV, txid, evset, remaining, ret, cbV, delivered,
                 completedBy, late, registered, net, replied>>

\* line 516: event.wait(timeout) returns True
ReqWaitSet(c) ==
  /\ pc[c] = "wait"
  /\ evset[c]
  /\ pc' = [pc EXCEPT ![c] = "pop"]
  /\ UNCHANGED <<mapV, txid, evset, remaining, ret, cbV, histV, envV>>

\* faulty variant: event.wait gives up at once
WaitExpiredAtOnce(c) == TRUE

\* event.wait(timeout) gives up once the timeout has elapsed
WaitExpired(c) == remaining[c] = 0

\* line 516/520: event.wait(timeout) returns False
ReqWaitTimeout(c) ==
  /\ pc[c] = "wait"
  /\ ~evset[c]
  /\ WaitExpired(c)
  /\ ret' = [ret EXCEPT ![c] = TimedOut]
  /\ pc' = [pc EXCEPT ![c] = "finally"]
  /\ UNCHANGED <<mapV, txid, evset, remaining, cbV, histV, envV>>

\* faulty variant: the call takes the result stored under another transaction
PopKeyOther(c) == CHOOSE t \in TxIds : t # txid[c]

\* the key whose result the call takes
PopKey(c) == txid[c]

\* line 517-519: with _request_lock: result = _request_results.pop(id, {})
ReqPop(c) ==
  /\ pc[c] = "pop"
  /\ LET r == request_results[PopKey(c)]
     IN ret' = [ret EXCEPT ![c] = IF r = NoMsg THEN EmptyResult ELSE Reply(r)]
  /\ request_results' = Pop(request_results, PopKey(c), NoMsg)
  /\ pc' = [pc EXCEPT ![c] = "finally"]
  /\ UNCHANGED <<pending_requests, txid, evset, remaining, cbV, histV,
                 envV>>

\* line 521-524: finally: pop the id from both maps
ReqFinally(c) ==
  /\ pc[c] = "finally"
  /\ pending_requests' = Pop(pending_requests, txid[c], NoCall)
  /\ request_results' = Pop(request_results, txid[c], NoMsg)
  /\ pc' = [pc EXCEPT ![c] = "done"]
  /\ UNCHANGED <<txid, evset, remaining, ret, cbV, histV, envV>>

\* one clock tick passes for every call blocked in event.wait
TickReq ==
  /\ \E c \in Calls : pc[c] = "wait" /\ remaining[c] > 0
  /\ remaining' = [c \in Calls |->
                     IF pc[c] = "wait" /\ remaining[c] > 0
                     THEN remaining[c] - 1 ELSE remaining[c]]
  /\ UNCHANGED <<mapV, pc, txid, evset, ret, cbV, histV, envV>>

\* ------------------------------------------------------------ the bridge
\* Zigbee2MQTT answers a published request once, echoing its transaction.
BridgeReply(c) ==
  /\ c \in atBridge \ replied
  /\ replied' = replied \cup {c}
  /\ net' = net \cup {[transaction |-> txid[c], body |-> c]}
  /\ UNCHANGED <<mapV, callV, cbV, histV, atBridge>>

\* ------------------------------- on_message, zigbee2mqtt/bridge/response/
\* a call holds a pending transaction from its registration to its finally
Pending(c) == pc[c] \in {"publish", "wait", "pop", "finally"}
Expired(c) == pc[c] \in {"finally", "done"} /\ ret[c] = TimedOut

NoteDelivered(m) ==
  [c \in Calls |-> IF Pending(c) /\ txid[c] = m.transaction
                   THEN delivered[c] \cup {m} ELSE delivered[c]]

\* line 365: if transaction and transaction in _pending_requests
ResponseMatches(m) ==
  /\ m.transaction # NoTx
  /\ pending_requests[m.transaction] # NoCall

\* The responses the broker can hand to on_message: an answer in flight, or
\* at any time a response to somebody else's request (another transaction,
\* or none).
Arrives(m) == m \in net \/ m.body = Unsolicited

\* line 361-365: the response is decoded and looked up, without the lock
MsgCheck(m) ==
  /\ msgpc = "idle"
  /\ Arrives(m)
  /\ net' = net \ {m}
  /\ late' = IF m.body # Unsolicited /\ Expired(m.body)
             THEN late \cup {m} ELSE late
  /\ IF ResponseMatches(m)
     THEN /\ msgpc' = "store"
          /\ msgcur' = m
          /\ delivered' = NoteDelivered(m)
     ELSE UNCHANGED <<msgpc, msgcur, delivered>>
  /\ UNCHANGED <<mapV, callV, completedBy, registered, publishedBy, atBridge,
                 replied>>

\* the Event that on_message sets for a response
EventFor(m) == pending_requests[m.transaction]

\* line 366-370: with _request_lock: store the result, set the event if any
MsgStore ==
  /\ msgpc = "store"
  /\ request_results' = [request_results EXCEPT ![msgcur.transaction] = msgcur]
  /\ LET event == EventFor(msgcur)
     IN IF event # NoCall
        THEN /\ evset' = [evset EXCEPT ![event] = TRUE]
             /\ completedBy' = [completedBy EXCEPT ![event] =
                                  IF evset[event] THEN @ ELSE msgcur]
        ELSE UNCHANGED <<evset, completedBy>>
  /\ delivered' = NoteDelivered(msgcur)
  /\ msgpc' = "idle"
  /\ msgcur' = NoMsg
  /\ UNCHANGED <<pending_requests, pc, txid, remaining, ret, late,
                 registered, publishedBy, envV>>

\* --------------------------------------------------------- sensor state
None == "None"       \* an argument that is not given
SensorReading(t, h, b, ts, src) ==
  [temperature |-> t, humidity |-> h, battery |-> b, timestamp |-> ts,
   src |-> src]
\* SensorReading(): the dataclass defaults; src is the publishing device
DefaultReading == SensorReading(0, 0, 100, 0, NoDevice)
\* SensorData()
SensorData == [current |-> DefaultReading, history |-> <<>>]

\* the payloads devices publish
Payloads == {[temperature |-> 20, humidity |-> 50, battery |-> 90]}

\* payloads that carry "temperature": null
NullPayloads == {[temperature |-> NotNumber, humidity |-> 50, battery |-> 90]}

\* a field the payload does not carry
Absent == -997

\* payloads without any of the three fields
PartialPayloads == {[temperature |-> Absent, humidity |-> Absent, battery |-> Absent]}

\* faulty variant: the default is not applied
DataGetRaw(value, default) == value

\* data.get(field, default)
DataGet(value, default) == IF value = Absent THEN default ELSE value

\* faulty variant: a full deque drops the new reading
DequeAppendKeepOld(h, r) ==
  IF Len(h) >= HISTORY_SIZE THEN h ELSE Append(h, r)

\* deque(maxlen=HISTORY_SIZE).append
DequeAppend(h, r) ==
  IF Len(h) >= HISTORY_SIZE THEN Append(Tail(h), r) ELSE Append(h, r)

\* faulty variant: the loop does not break, the last matching role wins
MatchRoleLast(cfg, topic) ==
  LET hits == {i \in 1..Len(Roles) :
                 /\ cfg[Roles[i]] # NoDevice
                 /\ topic = get_topic_for_device(cfg[Roles[i]])}
  IN IF hits = {} THEN None
     ELSE Roles[CHOOSE i \in hits : \A j \in hits : i >= j]

\* line 378-383: the first role whose device's topic is the message topic
MatchRole(cfg, topic) ==
  LET hits == {i \in 1..Len(Roles) :
                 /\ cfg[Roles[i]] # NoDevice
                 /\ topic = get_topic_for_device(cfg[Roles[i]])}
  IN IF hits = {} THEN None
     ELSE Roles[CHOOSE i \in hits : \A j \in hits : i <= j]

\* line 374-393: a device state message arrives; the role is looked up in
\* sensor_config and the reading is built
SMsgMatchUpTo(d, p, bound) ==
  /\ smsgpc = "idle"
  /\ readings < bound
  /\ mqtt_connected
  /\ get_topic_for_device(d) \in brokerSubs
  /\ readings' = readings + 1
  /\ LET key == MatchRole(sensor_config, get_topic_for_device(d))
     IN IF key = None
        THEN UNCHANGED <<smsgpc, smsgkey, smsgreading>>
        ELSE /\ smsgpc' = "append"
             /\ smsgkey' = key
             /\ smsgreading' = SensorReading(DataGet(p.temperature, 0),
                                              DataGet(p.humidity, 0),
                                              DataGet(p.battery, 100), now, d)
  /\ UNCHANGED <<sensors, cache, saved_config, now, cfgpc, cfgargs>>

SMsgMatch(d, p) == SMsgMatchUpTo(d, p, MaxReadings)

\* line 394: sensors[key].history.append(reading)
SMsgAppend ==
  /\ smsgpc = "append"
  /\ sensors' = [sensors EXCEPT ![smsgkey].history = DequeAppend(@, smsgreading)]
  /\ smsgpc' = "current"
  /\ UNCHANGED <<cache, saved_config, now, readings, cfgpc, cfgargs, smsgkey,
                 smsgreading>>

\* line 395: sensors[key].current = reading
SMsgCurrent ==
  /\ smsgpc = "current"
  /\ sensors' = [sensors EXCEPT ![smsgkey].current = smsgreading]
  /\ smsgpc' = "save"
  /\ UNCHANGED <<cache, saved_config, now, readings, cfgpc, cfgargs, smsgkey,
                 smsgreading>>

\* a row of sensor_cache; src is the publishing device
CacheRow(role, reading) ==
  [role |-> role, temperature |-> reading.temperature,
   humidity |-> reading.humidity, battery |-> reading.battery,
   timestamp |-> reading.timestamp, src |-> reading.src]

\* faulty variant: sensor_cache has no PRIMARY KEY on role
CacheConflictNone(rows, role) == {}

\* ON CONFLICT(role): the row the PRIMARY KEY matches
CacheConflict(rows, role) == {r \in rows : r.role = role}

\* _save_sensor_reading(role, reading): the table after the upsert
SaveSensorReading(rows, role, reading) ==
  (rows \ CacheConflict(rows, role)) \cup {CacheRow(role, reading)}

\* _load_cached_sensors(): sensors after the rows are loaded in some order
LoadCachedSensors(rows) ==
  [role \in RoleSet |->
     IF \E r \in rows : r.role = role
     THEN LET row == CHOOSE r \in rows : r.role = role
          IN [current |-> SensorReading(row.temperature, row.humidity,
                                        row.battery, row.timestamp, row.src),
              history |-> <<>>]
     ELSE SensorData]

\* a field that is a JSON array or object: sqlite3 cannot bind it
Unbindable == -998

ListPayloads == {[temperature |-> Unbindable, humidity |-> 50, battery |-> 90]}

\* line 113-120: every parameter of the INSERT is of a type sqlite3 binds
Bindable(reading) ==
  /\ reading.temperature # Unbindable
  /\ reading.humidity # Unbindable
  /\ reading.battery # Unbindable

\* the payload kinds json.loads or data.get raise on
Unparsed == {"invalid JSON", "not an object"}

\* line 373-398: a payload that is not a JSON object arrives on a device
\* topic; json.loads (373) raises on invalid JSON, data.get (388) raises
\* on a list, a number or a string once a role matched; the handler
\* catches and logs it
SMsgUnparsed(d, kind, bound) ==
  /\ smsgpc = "idle"
  /\ readings < bound
  /\ mqtt_connected
  /\ get_topic_for_device(d) \in brokerSubs
  /\ kind \in Unparsed
  /\ readings' = readings + 1
  /\ UNCHANGED <<sensors, cache, saved_config, now, cfgpc, cfgargs, smsgpc,
                 smsgkey, smsgreading>>

\* line 396: _save_sensor_reading(key, reading), an upsert of the role's row
SMsgSave ==
  /\ smsgpc = "save"
  /\ Bindable(smsgreading)
  /\ cache' = SaveSensorReading(cache, smsgkey, smsgreading)
  /\ smsgpc' = "idle"
  /\ smsgkey' = None
  /\ smsgreading' = DefaultReading
  /\ UNCHANGED <<sensors, saved_config, now, readings, cfgpc, cfgargs>>

\* line 396-398: the write fails; the exception is caught and logged
SMsgSaveFails ==
  /\ smsgpc = "save"
  /\ smsgpc' = "idle"
  /\ smsgkey' = None
  /\ smsgreading' = DefaultReading
  /\ UNCHANGED <<sensors, cache, saved_config, now, readings, cfgpc, cfgargs>>

\* The process is restarted: the module state is new, then start_mqtt()
\* runs load_config() and _load_cached_sensors().
Restart ==
  /\ sensor_config' = saved_config
  /\ mqtt_connected' = FALSE
  /\ subscribed_topics' = {}
  /\ brokerSubs' = {}
  /\ sensors' = LoadCachedSensors(cache)
  /\ smsgpc' = "idle"
  /\ smsgkey' = None
  /\ smsgreading' = DefaultReading
  /\ UNCHANGED <<cache, saved_config, now, readings, cfgpc, cfgargs>>

\* ---------------------------------------------------- set_sensor_config
NoArgs == [indoor |-> None, outdoor |-> None, unit |-> None]
DeviceArgs == Devices \cup {NoDevice, None}
UnitArgs == {"F", "K", None}

\* the position after the statements for a role
AfterRole(role) == IF role = "indoor" THEN "outdoor" ELSE "finish"

\* line 468-473: the call starts with its arguments
CfgStart(indoor, outdoor, unit) ==
  /\ cfgpc = "idle"
  /\ cfgargs' = [indoor |-> indoor, outdoor |-> outdoor, unit |-> unit]
  /\ cfgpc' = "indoor"
  /\ UNCHANGED <<sensor_config, connVars, sensors, cache, saved_config, now,
                 readings, smsgpc, smsgkey, smsgreading>>

\* line 474-475 / 479-480: sensor_config[role] = device or ""
CfgAssign(role) ==
  /\ cfgpc = role
  /\ IF cfgargs[role] # None
     THEN /\ sensor_config' = [sensor_config EXCEPT ![role] = cfgargs[role]]
          /\ cfgpc' = role \o "_clear"
     ELSE /\ cfgpc' = AfterRole(role)
          /\ UNCHANGED sensor_config
  /\ cfgargs' = [cfgargs EXCEPT ![role] = None]   \* not read again
  /\ UNCHANGED <<connVars, sensors, cache, saved_config, now, readings,
                 smsgpc, smsgkey, smsgreading>>

\* line 477 / 481: sensors[role] = SensorData()
CfgClear(role) ==
  /\ cfgpc = role \o "_clear"
  /\ sensors' = [sensors EXCEPT ![role] = SensorData]
  /\ cfgpc' = AfterRole(role)
  /\ UNCHANGED <<sensor_config, connVars, cache, saved_config, now, readings,
                 cfgargs, smsgpc, smsgkey, smsgreading>>

\* line 483-489: the unit, save_config() (a failed save is logged and
\* swallowed), update_subscriptions(), return
CfgFinish(saved) ==
  /\ cfgpc = "finish"
  /\ LET cfg == IF cfgargs.unit \in {"C", "F"}
                THEN [sensor_config EXCEPT !.unit = cfgargs.unit]
                ELSE sensor_config
         u == update_subscriptions(mqtt_connected, cfg, subscribed_topics,
                                   brokerSubs)
     IN /\ sensor_config' = cfg
        /\ saved_config' = IF saved THEN cfg ELSE saved_config
        /\ subscribed_topics' = u.subscribed
        /\ brokerSubs' = u.broker
  /\ cfgpc' = "idle"
  /\ cfgargs' = NoArgs
  /\ UNCHANGED <<mqtt_connected, sensors, cache, now, readings, smsgpc,
                 smsgkey, smsgreading>>

\* line 489: return {"success": True, "config": sensor_config}
SetSensorConfigReturn(cfg) == [success |-> TRUE, config |-> cfg]

\* time.time() moves on
ClockTick(j) ==
  /\ now + j <= MaxTicks * (MAX_CACHE_AGE + 1)
  /\ now' = now + j
  /\ UNCHANGED <<sensors, cache, saved_config, readings, cfgpc, cfgargs,
                 smsgpc, smsgkey, smsgreading>>

\* ------------------------------------------------------ start_mqtt loop()
RetryInterval == 30
MaxAttempts == 3     \* connect calls

\* faulty variant: the exception leaves loop() and the thread ends
AfterLoopExceptionUncaught == "exited"

\* line 421-425: except Exception: log once, time.sleep(30), next iteration
AfterLoopException == "sleep"

\* line 418-420: client.connect() returns; loop_forever() is entered
LoopConnectOk ==
  /\ looppc = "connect"
  /\ attempts < MaxAttempts
  /\ attempts' = attempts + 1
  /\ logged_failure' = FALSE
  /\ looppc' = "loop_forever"

\* line 418, 421-424: client.connect() raises
LoopConnectFails ==
  /\ looppc = "connect"
  /\ attempts < MaxAttempts
  /\ attempts' = attempts + 1
  /\ logged_failure' = TRUE
  /\ looppc' = AfterLoopException

\* line 420-424: an exception comes out of client.loop_forever()
LoopForeverRaises ==
  /\ looppc = "loop_forever"
  /\ logged_failure' = TRUE
  /\ looppc' = AfterLoopException
  /\ UNCHANGED attempts

\* line 420, 416: client.loop_forever() returns; while True goes on
LoopForeverReturns ==
  /\ looppc = "loop_forever"
  /\ looppc' = "connect"
  /\ UNCHANGED <<logged_failure, attempts>>

\* line 425, 416: time.sleep(30) ends; the next iteration starts
LoopSleep ==
  /\ looppc = "sleep"
  /\ looppc' = "connect"
  /\ ClockTick(RetryInterval)
  /\ UNCHANGED <<logged_failure, attempts>>

\* ------------------------------------------------------------- get_trend
\* Temperatures and humidities are counted in tenths here.
TREND_THRESHOLD_TEMP == 3
TREND_THRESHOLD_HUMIDITY == 15

\* faulty variant: the newest entry of the history
PreviousIsLast(history) == history[Len(history)]

\* line 202: history[-2]
Previous(history) == history[Len(history) - 1]

\* get_trend(current, history, attr)
get_trend(current, history, attr) ==
  IF Len(history) < 2 THEN "steady"
  ELSE LET prev == Previous(history)[attr]
           diff == current - prev
           threshold == IF attr = "temperature" THEN TREND_THRESHOLD_TEMP
                        ELSE TREND_THRESHOLD_HUMIDITY
       IN IF diff > threshold THEN "rising"
          ELSE IF diff < -threshold THEN "falling"
          ELSE "steady"

NoTrendArgs == [current |-> 0, history |-> <<>>, attr |-> None]

\* a call of get_trend returns
GetTrend ==
  /\ trend = None
  /\ trend' = get_trend(trend_args.current, trend_args.history, trend_args.attr)
  /\ UNCHANGED trend_args

\* c_to_f(temp_c), on whole degrees
c_to_f(temp_c) == (temp_c * 9) \div 5 + 32

\* the arithmetic of feels_like / round raises TypeError on the reading
NotNumeric(c) == c.temperature = NotNumber \/ c.humidity = NotNumber

\* sensor_response(key) at time t; the feels_like and trend fields of an
\* available result are derived from the same reading
sensor_response(key, t) ==
  IF sensor_config[key] = NoDevice THEN [available |-> FALSE]
  ELSE LET c == sensors[key].current
       IN IF c.timestamp = 0
          THEN [available |-> FALSE, error |-> "Waiting for data"]
          ELSE IF t - c.timestamp > MAX_CACHE_AGE
          THEN [available |-> FALSE, error |-> "Sensor offline"]
          ELSE IF NotNumeric(c)
          THEN [raised |-> "TypeError"]
          ELSE [available |-> TRUE,
                temperature |-> IF sensor_config.unit = "F"
                                THEN c_to_f(c.temperature) ELSE c.temperature,
                humidity |-> c.humidity,
                battery |-> c.battery,
                age_seconds |-> t - c.timestamp]

InitSensorVars ==
  /\ sensors = [r \in RoleSet |-> SensorData]
  /\ cache = {}
  /\ saved_config = sensor_config
  /\ now = 1
  /\ readings = 0
  /\ cfgpc = "idle"
  /\ cfgargs = NoArgs
  /\ smsgpc = "idle"
  /\ smsgkey = None
  /\ smsgreading = DefaultReading

\* ------------------------------------------------------------ SSEManager
Streams == {"s1", "s2"}        \* subscribe() generators
Broadcasters == {1, 2}         \* threads that call broadcast()

Range(seq) == {seq[i] : i \in 1..Len(seq)}

\* list.remove(q): drops the first occurrence
ListRemove(list, q) ==
  LET i == CHOOSE k \in 1..Len(list) :
             list[k] = q /\ \A j \in 1..(k - 1) : list[j] # q
  IN SubSeq(list, 1, i - 1) \o SubSeq(list, i + 1, Len(list))

RECURSIVE RemoveAll(_, _)
\* line 36-37: for q in dead_queues: self._subscribers.remove(q)
RemoveAll(list, dead) ==
  IF dead = <<>> THEN list
  ELSE RemoveAll(ListRemove(list, Head(dead)), Tail(dead))

\* faulty variant: the full queues stay in the list
RemoveDeadNone(list, dead) == list

\* line 35-37: the queues found full are removed from _subscribers
RemoveDead(list, dead) == RemoveAll(list, dead)

\* faulty variant: the lock is taken without waiting for its holder
LockFreeAlways(holder) == TRUE

\* "with self._lock:" enters only when no thread holds the lock
LockFree(holder) == holder = NoThread

\* faulty variant: put_nowait on a queue without a size limit
QueueHasSpaceAlways(q) == TRUE

\* put_nowait raises queue.Full when the queue holds maxsize items
QueueHasSpace(q) == Len(q) < QueueMax

\* line 27-29: encode the message, take the lock, dead_queues = []
BStart(t) ==
  /\ bpc[t] = "idle"
  /\ bcount < MaxBroadcasts
  /\ LockFree(sselock)
  /\ sselock' = t
  /\ bcount' = bcount + 1
  /\ bmsg' = [bmsg EXCEPT ![t] = bcount + 1]
  /\ bidx' = [bidx EXCEPT ![t] = 1]
  /\ bdead' = [bdead EXCEPT ![t] = <<>>]
  /\ bpc' = [bpc EXCEPT ![t] = "iter"]
  /\ UNCHANGED <<subscribers, queue, spc, visits, nread, regAt, dropped>>

\* line 30-34: one pass of the loop: put_nowait, or note the full queue
BPut(t) ==
  /\ bpc[t] = "iter"
  /\ bidx[t] <= Len(subscribers)
  /\ LET q == subscribers[bidx[t]]
     IN /\ IF QueueHasSpace(queue[q])
           THEN /\ queue' = [queue EXCEPT ![q] = Append(@, bmsg[t])]
                /\ UNCHANGED bdead
           ELSE /\ bdead' = [bdead EXCEPT ![t] = Append(@, q)]
                /\ UNCHANGED queue
        /\ visits' = [visits EXCEPT ![q] = @ + 1]
  /\ bidx' = [bidx EXCEPT ![t] = @ + 1]
  /\ UNCHANGED <<subscribers, sselock, spc, bpc, bmsg, bcount, nread, regAt,
                 dropped>>

\* line 35-38: the loop is over: remove the dead queues, release the lock
BEnd(t) ==
  /\ bpc[t] = "iter"
  /\ bidx[t] > Len(subscribers)
  /\ subscribers' = RemoveDead(subscribers, bdead[t])
  /\ dropped' = dropped \cup Range(bdead[t])
  /\ sselock' = IF sselock = t THEN NoThread ELSE sselock
  /\ bpc' = [bpc EXCEPT ![t] = "idle"]
  /\ bmsg' = [bmsg EXCEPT ![t] = 0]
  /\ bidx' = [bidx EXCEPT ![t] = 0]
  /\ bdead' = [bdead EXCEPT ![t] = <<>>]
  /\ UNCHANGED <<queue, spc, bcount, visits, nread, regAt>>

\* line 46: the generator is started: q = queue.Queue(maxsize=10)
SubStart(s) ==
  /\ spc[s] = "new"
  /\ spc' = [spc EXCEPT ![s] = "register"]
  /\ UNCHANGED <<subscribers, sselock, queue, bpc, bmsg, bidx, bdead, bcount,
                 visits, nread, regAt, dropped>>

\* line 48-55: with self._lock: self._subscribers.append(q); the initial
\* message, if any, is yielded
SubRegister(s) ==
  /\ spc[s] = "register"
  /\ LockFree(sselock)
  /\ subscribers' = Append(subscribers, s)
  /\ spc' = [spc EXCEPT ![s] = "open"]
  /\ regAt' = [regAt EXCEPT ![s] = bcount]
  /\ UNCHANGED <<sselock, queue, bpc, bmsg, bidx, bdead, bcount, visits, nread,
                 dropped>>

\* line 61-62: q.get_nowait() returns a message, which is yielded
SubGet(s) ==
  /\ spc[s] = "open"
  /\ queue[s] # <<>>
  /\ queue' = [queue EXCEPT ![s] = Tail(@)]
  /\ nread' = [nread EXCEPT ![s] = @ + 1]
  /\ UNCHANGED <<subscribers, sselock, spc, bpc, bmsg, bidx, bdead, bcount,
                 visits, regAt, dropped>>

\* the consumer disconnects: the generator is closed at a yield
SubClose(s) ==
  /\ spc[s] = "open"
  /\ spc' = [spc EXCEPT ![s] = "closing"]
  /\ UNCHANGED <<subscribers, sselock, queue, bpc, bmsg, bidx, bdead, bcount,
                 visits, nread, regAt, dropped>>

\* faulty variant: the finally block leaves the list alone
UnsubscribeNever(list, q) == list

\* line 71-72: if q in self._subscribers: self._subscribers.remove(q)
Unsubscribe(list, q) == IF q \in Range(list) THEN ListRemove(list, q) ELSE list

\* line 69-73: finally: with self._lock: remove the queue if it is listed
SubFinally(s) ==
  /\ spc[s] = "closing"
  /\ LockFree(sselock)
  /\ subscribers' = Unsubscribe(subscribers, s)
  /\ spc' = [spc EXCEPT ![s] = "closed"]
  /\ UNCHANGED <<sselock, queue, bpc, bmsg, bidx, bdead, bcount, visits, nread,
                 regAt, dropped>>

InitSSEVars ==
  /\ subscribers = <<>>
  /\ sselock = NoThread
  /\ queue = [s \in Streams |-> <<>>]
  /\ spc = [s \in Streams |-> "new"]
  /\ bpc = [t \in Broadcasters |-> "idle"]
  /\ bmsg = [t \in Broadcasters |-> 0]
  /\ bidx = [t \in Broadcasters |-> 0]
  /\ bdead = [t \in Broadcasters |-> <<>>]
  /\ bcount = 0
  /\ visits = [s \in Streams |-> 0]
  /\ nread = [s \in Streams |-> 0]
  /\ regAt = [s \in Streams |-> 0]
  /\ dropped = {}

\* ------------------------------------------------- notification_service
\* Time is counted in hours; a calendar date is the number of its day.
MaxId == 2               \* ids the events table may assign
MaxAdvances == 3         \* steps of the clock

HoursPerDay == 24
DefaultHours == 4        \* dismiss_event: hours or 4
PermanentDays == 3650    \* dismiss_event: timedelta(days=3650)
HundredYears == 36500 * HoursPerDay
StartClock == 47         \* day 1, 23:00
BadDate == -1            \* a due_date text that is no calendar date
NoHours == -1            \* hours=None
Null == "NULL"           \* SQL NULL
NoPref == "norow"        \* no row of type_preferences for the type
EmptyDict == "{}"        \* data={}

Types == {"shot", "weather"}
Names == {"n1"}
Ids == 1..MaxId
DueDays == {1, 3}
Jumps == {1, HoursPerDay, PermanentDays * HoursPerDay}
\* due_date arguments: a date text with or without a time of day
DueArgs == [date : DueDays \cup {BadDate}, time : {"", "T09:30:00"}]
DataArgs == {None, EmptyDict, "dose"}
HoursArgs == {NoHours, 0, 1, 2}

\* line 185-186: if "T" in due_date: due_date = due_date.split("T")[0]
NormalizeDue(due_date) ==
  IF due_date.time # "" THEN [date |-> due_date.date, time |-> ""] ELSE due_date

\* date.fromisoformat accepts the text
ValidDate(due_date) == due_date.date # BadDate /\ due_date.time = ""
\* date.fromisoformat(text), for a text it accepts
DateFromIso(due_date) == due_date.date

\* datetime.isoformat() / datetime.fromisoformat()
IsoFormat(t) == [day |-> t \div HoursPerDay, hour |-> t % HoursPerDay]
FromIsoFormat(s) == s.day * HoursPerDay + s.hour
NoDismissal == [day |-> -1, hour |-> -1]

\* now.date()
Today(t) == t \div HoursPerDay

\* json.dumps(data) if data else None  /  json.loads(row["data"]) if row["data"] else None
DumpData(data) == IF data \in {None, EmptyDict} THEN Null ELSE data
LoadData(text) == IF text = Null THEN None ELSE text

\* SELECT id, due_date FROM events WHERE type = ? AND name = ?
SelectEvent(rows, event_type, name) ==
  {r \in rows : r.type = event_type /\ r.name = name}

\* faulty variant: the table has no UNIQUE(type, name)
ConflictRowsNone(rows, event_type, name) == {}

\* ON CONFLICT(type, name): the rows the UNIQUE(type, name) index matches
ConflictRows(rows, event_type, name) ==
  {r \in rows : r.type = event_type /\ r.name = name}

\* faulty variant: the dismissal is cleared on every re-registration
DueChangedAlways(existing, due_date) == TRUE

\* line 216: existing["due_date"] != due_date
DueChanged(existing, due_date) == existing.due_date # due_date

NoDismissCall == [hours |-> NoHours, permanent |-> FALSE,
                  until_midnight |-> FALSE, at |-> -1, cleared |-> FALSE]
\* the dismissal was deleted by add_event
ClearedCall == [NoDismissCall EXCEPT !.cleared = TRUE]

\* faulty variant: INSERT OR REPLACE, the preference is reset
RegisterTypeReplace(pref) == Null

\* line 190-193: INSERT OR IGNORE INTO type_preferences VALUES (type, NULL)
RegisterType(pref) == IF pref = NoPref THEN Null ELSE pref

\* add_event(event_type, name, due_date, data)
add_event(event_type, name, due_date, data) ==
  LET due == NormalizeDue(due_date)
      existing == SelectEvent(events, event_type, name)
      conflict == ConflictRows(events, event_type, name)
      event_id == IF conflict = {} THEN sqlite_sequence + 1
                  ELSE (CHOOSE r \in conflict : TRUE).id
      cleared == /\ existing # {}
                 /\ DueChanged(CHOOSE r \in existing : TRUE, due)
  IN /\ conflict = {} => sqlite_sequence < MaxId
     /\ type_preferences' =
          [type_preferences EXCEPT ![event_type] = RegisterType(@)]
     /\ IF conflict = {}
        THEN /\ events' = events \cup
                  {[id |-> sqlite_sequence + 1, type |-> event_type, name |-> name,
                    due_date |-> due, data |-> DumpData(data)]}
             /\ sqlite_sequence' = sqlite_sequence + 1
        ELSE /\ events' = (events \ conflict) \cup
                  {[r EXCEPT !.due_date = due, !.data = DumpData(data)] :
                     r \in conflict}
             /\ UNCHANGED sqlite_sequence
     /\ dismissed' = IF cleared THEN [dismissed EXCEPT ![event_id] = NoDismissal]
                     ELSE dismissed
     /\ dismissHist' = IF cleared
                       THEN [dismissHist EXCEPT ![event_id] = ClearedCall]
                       ELSE dismissHist
     /\ UNCHANGED <<clock, advances, schedVars>>

\* delete_event(event_id)
delete_event(event_id) ==
  /\ events' = {r \in events : r.id # event_id}
  /\ dismissed' = [dismissed EXCEPT ![event_id] = NoDismissal]
  /\ dismissHist' = [dismissHist EXCEPT ![event_id] = NoDismissCall]
  /\ UNCHANGED <<sqlite_sequence, type_preferences, clock, advances, schedVars>>

\* line 271: datetime.now() + timedelta(days=3650)
PermanentUntil(t) == t + PermanentDays * HoursPerDay

\* line 277: datetime.now() + timedelta(hours=hours or 4)
HoursUntil(t, hours) ==
  t + (IF hours \in {NoHours, 0} THEN DefaultHours ELSE hours)

\* line 274-275: midnight at the start of tomorrow
MidnightUntil(t) == (Today(t) + 1) * HoursPerDay

\* dismiss_event(event_id, hours, permanent, until_midnight)
dismiss_event(event_id, hours, permanent, until_midnight) ==
  LET dismissed_until ==
        IF permanent THEN PermanentUntil(clock)
        ELSE IF until_midnight THEN MidnightUntil(clock)
        ELSE HoursUntil(clock, hours)
  IN /\ dismissed' = [dismissed EXCEPT ![event_id] = IsoFormat(dismissed_until)]
     /\ dismissHist' = [dismissHist EXCEPT ![event_id] =
                          [hours |-> hours, permanent |-> permanent,
                           until_midnight |-> until_midnight, at |-> clock,
                           cleared |-> FALSE]]
     /\ UNCHANGED <<events, sqlite_sequence, type_preferences, clock, advances, schedVars>>

\* undismiss_event(event_id)
undismiss_event(event_id) ==
  /\ dismissed' = [dismissed EXCEPT ![event_id] = NoDismissal]
  /\ dismissHist' = [dismissHist EXCEPT ![event_id] = NoDismissCall]
  /\ UNCHANGED <<events, sqlite_sequence, type_preferences, clock, advances, schedVars>>

\* set_type_enabled(event_type, enabled)
set_type_enabled(event_type, enabled) ==
  /\ type_preferences' =
       [type_preferences EXCEPT ![event_type] = IF enabled THEN "1" ELSE "0"]
  /\ UNCHANGED <<events, sqlite_sequence, dismissed, dismissHist, clock, advances, schedVars>>

\* faulty variant: the WHERE clause is missing
EventsOfAnyType(rows, event_type) == rows

\* line 433, 440: ... FROM events WHERE type = ?
EventsOfType(rows, event_type) == {x \in rows : x.type = event_type}

\* the answer of an operation; type is None where none is returned
ApiResult(success, type) == [success |-> success, type |-> type]

\* delete_type_preference(event_type)
delete_type_preference(event_type) ==
  LET event_ids == {r.id : r \in EventsOfType(events, event_type)}
  IN /\ dismissed' = [i \in Ids |-> IF i \in event_ids THEN NoDismissal
                                    ELSE dismissed[i]]
     /\ dismissHist' = [i \in Ids |-> IF i \in event_ids THEN NoDismissCall
                                      ELSE dismissHist[i]]
     /\ events' = events \ EventsOfType(events, event_type)
     /\ api_result' = ApiResult(TRUE, event_type)
     /\ type_preferences' = [type_preferences EXCEPT ![event_type] = NoPref]
     /\ UNCHANGED <<sqlite_sequence, clock, advances, schedVars>>

\* routers/notifications.py, DELETE /{event_id}: the service's answer
RouterDelete(event_id) ==
  /\ delete_event(event_id)
  /\ api_result' = ApiResult(TRUE, None)

\* DismissRequest bodies; NoHours is "hours": null
NegativeHours == -2
Request(hours, permanent, until_midnight) ==
  [hours |-> hours, permanent |-> permanent, until_midnight |-> until_midnight]
Requests ==
  {Request(1, FALSE, FALSE), Request(DefaultHours, TRUE, FALSE),
   Request(DefaultHours, TRUE, TRUE), Request(0, FALSE, FALSE),
   Request(NegativeHours, FALSE, FALSE)}

\* routers/notifications.py, POST /{event_id}/dismiss
RouterDismiss(event_id, request) ==
  /\ IF request.permanent
     THEN dismiss_event(event_id, DefaultHours, TRUE, FALSE)
     ELSE IF request.until_midnight
     THEN dismiss_event(event_id, DefaultHours, FALSE, TRUE)
     ELSE dismiss_event(event_id, request.hours, FALSE, FALSE)
  /\ api_result' = ApiResult(TRUE, None)

\* time passes
Advance(j) ==
  /\ advances < MaxAdvances
  /\ clock' = clock + j
  /\ advances' = advances + 1
  /\ UNCHANGED <<storeVars, dismissHist, schedVars>>

\* ------------------------------------------------------------- evaluate
\* INNER JOIN type_preferences tp ON e.type = tp.type AND tp.enabled = 1
EnabledRows(rows, prefs) == {r \in rows : prefs[r.type] = "1"}

\* line 114-118: the row has a dismissal that has not expired
SkipDismissed(r, t) ==
  /\ dismissed[r.id] # NoDismissal
  /\ t < FromIsoFormat(dismissed[r.id])

\* line 122-147: the entry appended for a row whose due_date parses
Notification(r, t) ==
  LET due_date == DateFromIso(r.due_date)
  IN [id |-> r.id, type |-> r.type, name |-> r.name, due_date |-> r.due_date,
      data |-> LoadData(r.data),
      is_overdue |-> due_date < Today(t),
      is_today |-> due_date = Today(t),
      is_tomorrow |-> due_date = Today(t) + 1]

\* faulty variant: an event due tomorrow is not notified
ShouldNotifyToday(n) == n.is_overdue \/ n.is_today

\* line 125-132: should_notify
ShouldNotify(n) == n.is_overdue \/ n.is_today \/ n.is_tomorrow

RECURSIVE OrderByDueDate(_)
\* ORDER BY e.due_date ASC: the rows by due date, the rows of one date in
\* the order of the scan of the events table (by id)
OrderByDueDate(rows) ==
  IF rows = {} THEN <<>>
  ELSE LET first == CHOOSE r \in rows : \A q \in rows :
                      \/ r.due_date.date < q.due_date.date
                      \/ r.due_date.date = q.due_date.date /\ r.id <= q.id
       IN <<first>> \o OrderByDueDate(rows \ {first})

\* the entries of the rows, in the order of the rows
Notifications(ordered, t) ==
  [i \in 1..Len(ordered) |-> Notification(ordered[i], t)]

\* line 100-146 of _check_notifications: [raised, due, list], list being
\* due_notifications and due its entries; date.fromisoformat raises
\* ValueError on the first row that is not skipped and does not parse
CheckDue(t) ==
  LET rows == {r \in EnabledRows(events, type_preferences) : ~SkipDismissed(r, t)}
  IN IF \E r \in rows : ~ValidDate(r.due_date)
     THEN [raised |-> TRUE, due |-> {}, list |-> <<>>]
     ELSE [raised |-> FALSE,
           due |-> {n \in {Notification(r, t) : r \in rows} : ShouldNotify(n)},
           list |-> SelectSeq(Notifications(OrderByDueDate(rows), t), ShouldNotify)]

\* get_due_notifications(): [raised, due, list], the query at line 310-318
\* and the loop at line 321-347
get_due_notifications(t) ==
  LET rows == {r \in EnabledRows(events, type_preferences) : ~SkipDismissed(r, t)}
      IsDue(n) == n.is_overdue \/ n.is_today \/ n.is_tomorrow
  IN IF \E r \in rows : ~ValidDate(r.due_date)
     THEN [raised |-> TRUE, due |-> {}, list |-> <<>>]
     ELSE [raised |-> FALSE,
           due |-> {n \in {Notification(r, t) : r \in rows} : IsDue(n)},
           list |-> SelectSeq(Notifications(OrderByDueDate(rows), t), IsDue)]

\* line 148-149: if due_notifications: _broadcast(...)
Broadcast(result) ==
  IF ~result.raised /\ result.list # <<>> THEN result.list ELSE broadcasted

\* trigger_check(): _check_notifications() on the caller's thread
trigger_check ==
  /\ broadcasted' = Broadcast(CheckDue(clock))
  /\ UNCHANGED <<storeVars, dismissHist, clock, advances, schedpc,
                 scheduler_stop, schedRaised, evalFlip>>

\* ------------------------------------------------------ _scheduler_loop
\* faulty variant: the loop has no try/except
AfterCheckUncaught(raised) == IF raised THEN "exited" ELSE "waiting"

\* line 155-159: the exception is caught and logged, then the loop waits
AfterCheck(raised) == "waiting"

\* line 154-158: while not _scheduler_stop.is_set(): _check_notifications()
SchedEvaluate ==
  /\ schedpc = "loop"
  /\ ~scheduler_stop
  /\ LET result == CheckDue(clock)
     IN /\ schedRaised' = result.raised
        /\ broadcasted' = Broadcast(result)
        /\ schedpc' = AfterCheck(result.raised)
  /\ evalFlip' = 1 - evalFlip
  /\ UNCHANGED <<storeVars, dismissHist, clock, advances, scheduler_stop>>

\* line 159: _scheduler_stop.wait(60) returns
SchedWake ==
  /\ schedpc = "waiting"
  /\ schedpc' = "loop"
  /\ UNCHANGED <<storeVars, dismissHist, clock, advances, scheduler_stop,
                 schedRaised, evalFlip, broadcasted>>

\* line 154: the loop ends once the stop event is set
SchedExit ==
  /\ schedpc = "loop"
  /\ scheduler_stop
  /\ schedpc' = "exited"
  /\ UNCHANGED <<storeVars, dismissHist, clock, advances, scheduler_stop,
                 schedRaised, evalFlip, broadcasted>>

\* _scheduler_stop.set(): the service is shut down
SchedulerStop ==
  /\ ~scheduler_stop
  /\ scheduler_stop' = TRUE
  /\ UNCHANGED <<storeVars, dismissHist, clock, advances, schedpc,
                 schedRaised, evalFlip, broadcasted>>

\* init(): a new database, the scheduler thread started
InitNotifVars ==
  /\ events = {}
  /\ sqlite_sequence = 0
  /\ dismissed = [i \in Ids |-> NoDismissal]
  /\ type_preferences = [t \in Types |-> NoPref]
  /\ clock = StartClock
  /\ advances = 0
  /\ schedpc = "loop"
  /\ scheduler_stop = FALSE
  /\ schedRaised = FALSE
  /\ evalFlip = 0
  /\ broadcasted = <<>>
  /\ dismissHist = [i \in Ids |-> NoDismissCall]

InitReadVars == arrivals = [r \in RoleSet |-> <<>>]

\* start_mqtt(): the thread enters loop()
InitLoopVars ==
  /\ looppc = "connect"
  /\ logged_failure = FALSE
  /\ attempts = 0

InitSubsVars ==
  mqttCalls = [sub |-> {}, unsub |-> {}]

InitStreamVars ==
  /\ initial_message = [s \in Streams |-> None]
  /\ sinit = [s \in Streams |-> FALSE]
  /\ yielded = [s \in Streams |-> <<>>]

InitTrendVars ==
  /\ trend_args = NoTrendArgs
  /\ trend = None

InitRetVars ==
  /\ cfg_result = None
  /\ api_result = ApiResult(FALSE, None)

\* line 53, 56, 58: the module's state when routers/sensors.py imports it
ImportedDevices == <<>>
ImportedConfig == [indoor |-> NoDevice, outdoor |-> NoDevice, unit |-> "C"]
ImportedConnected == FALSE

\* no request was answered yet
NoResult == [none |-> TRUE]

\* start_mqtt() has run load_config(), which bound sensor_config to a new dict
\* (line 134)
InitRouterVars ==
  /\ available_devices = ImportedDevices
  /\ status_result = NoResult
  /\ devices_result = NoResult

InitLateVars == InitRouterVars

InitMoreVars == InitLoopVars /\ InitSubsVars /\ InitStreamVars /\ InitTrendVars /\ InitRetVars /\ InitLateVars

\* --------------------------------------------------------------- SpecReq
InitConn ==
  /\ mqtt_connected = FALSE
  /\ sensor_config = [indoor |-> "d1", outdoor |-> NoDevice, unit |-> "C"]
  /\ subscribed_topics = {}
  /\ brokerSubs = {}

InitReqVars ==
  /\ pending_requests = [t \in TxIds |-> NoCall]
  /\ request_results = [t \in TxIds |-> NoMsg]
  /\ net = {}
  /\ atBridge = {}
  /\ replied = {}
  /\ pc = [c \in Calls |-> "idle"]
  /\ txid = [c \in Calls |-> NoTx]
  /\ evset = [c \in Calls |-> FALSE]
  /\ remaining = [c \in Calls |-> 0]
  /\ ret = [c \in Calls |-> NoReturn]
  /\ msgpc = "idle"
  /\ msgcur = NoMsg
  /\ delivered = [c \in Calls |-> {}]
  /\ completedBy = [c \in Calls |-> NoMsg]
  /\ late = {}
  /\ registered = [c \in Calls |-> FALSE]
  /\ publishedBy = [c \in Calls |-> FALSE]

InitReq ==
  InitConn /\ InitReqVars /\ InitSensorVars /\ InitSSEVars /\ InitNotifVars
    /\ InitReadVars /\ InitMoreVars

NextReq ==
  \/ \E rc \in {0, 5} : on_connect(rc) /\ UNCHANGED <<sensor_config, reqVars, sensorVars, sseVars, extraVars>>
  \/ on_disconnect /\ UNCHANGED <<sensor_config, reqVars, sensorVars, sseVars, extraVars>>
  \/ \E c \in Calls : ReqStart(c) /\ UNCHANGED <<sensor_config, connVars, sensorVars, sseVars, extraVars>>
  \/ \E c \in Calls : ReqPublish(c) /\ UNCHANGED <<sensor_config, connVars, sensorVars, sseVars, extraVars>>
  \/ \E c \in Calls : ReqWaitSet(c) /\ UNCHANGED <<sensor_config, connVars, sensorVars, sseVars, extraVars>>
  \/ \E c \in Calls : ReqWaitTimeout(c) /\ UNCHANGED <<sensor_config, connVars, sensorVars, sseVars, extraVars>>
  \/ \E c \in Calls : ReqPop(c) /\ UNCHANGED <<sensor_config, connVars, sensorVars, sseVars, extraVars>>
  \/ \E c \in Calls : ReqFinally(c) /\ UNCHANGED <<sensor_config, connVars, sensorVars, sseVars, extraVars>>
  \/ TickReq /\ UNCHANGED <<sensor_config, connVars, sensorVars, sseVars, extraVars>>
  \/ \E c \in Calls : BridgeReply(c) /\ UNCHANGED <<sensor_config, connVars, sensorVars, sseVars, extraVars>>
  \/ \E m \in Msgs : MsgCheck(m) /\ UNCHANGED <<sensor_config, connVars, sensorVars, sseVars, extraVars>>
  \/ MsgStore /\ UNCHANGED <<sensor_config, connVars, sensorVars, sseVars, extraVars>>

SpecReq == InitReq /\ [][NextReq]_vars

\* ------------------------------------------------ request correlation
IsReply(r) == r.outcome = "reply"
PendingEmpty == \A t \in TxIds : pending_requests[t] = NoCall
ResultsEmpty == \A t \in TxIds : request_results[t] = NoMsg

\* C1: a call returns a reply only if that reply carries the call's own
\* transaction id and was handled by on_message while the call was pending;
\* the response that completes a call (sets its event) carries the call's id,
\* so a response with another id or none never completes it.
C1_ReplyOnlyForOwnTransaction ==
  \A c \in Calls :
    /\ IsReply(ret[c]) =>
         /\ ret[c].data.transaction = txid[c]
         /\ ret[c].data \in delivered[c]
    /\ evset[c] =>
         /\ completedBy[c].transaction = txid[c]
         /\ completedBy[c] \in delivered[c]
    /\ pc[c] = "pop" => evset[c]

\* a call returned a reply while the result of another transaction was stored
C1_Witness ==
  \E c \in Calls :
    /\ pc[c] = "done" /\ IsReply(ret[c])
    /\ \E d \in Calls : d # c /\ registered[d] /\ txid[d] # txid[c]

\* C2: a call that found the client connected and saw no response with its
\* id ends with "Request timed out", and only after its timeout has elapsed
\* in event.wait; "MQTT not connected" is a different outcome, returned
\* without registering a pending transaction and without publishing.
C2_TimeoutOutcome ==
  \A c \in Calls :
    /\ ret[c] = TimedOut => registered[c] /\ remaining[c] = 0
    /\ ret[c] = NotConnected =>
         /\ ~registered[c] /\ ~publishedBy[c]
         /\ \A t \in TxIds : pending_requests[t] # c
    /\ (pc[c] = "done" /\ registered[c] /\ delivered[c] = {}) => ret[c] = TimedOut
    /\ (pc[c] = "done" /\ ~registered[c]) => ret[c] = NotConnected
    /\ TimedOut # NotConnected

\* one call timed out after waiting, another was refused as not connected
C2_Witness ==
  \E c, d \in Calls :
    /\ pc[c] = "done" /\ ret[c] = TimedOut /\ delivered[c] = {}
    /\ pc[d] = "done" /\ ret[d] = NotConnected

\* C3: a response that reaches on_message after its request has expired is
\* discarded: no call returns it.
C3_LateReplyDiscarded ==
  \A c \in Calls : IsReply(ret[c]) => ret[c].data \notin late

\* C4: whenever no request is in flight, _pending_requests and
\* _request_results are both empty.
C4_MapsEmptyWhenIdle ==
  (\A c \in Calls : pc[c] \in {"idle", "done"}) => PendingEmpty /\ ResultsEmpty

\* C5: two requests that are pending at the same time never hold the same
\* transaction id, and the event a request waits on stays registered under
\* its id until the request ends.
C5_UniquePending ==
  /\ \A c, d \in Calls :
       (c # d /\ Pending(c) /\ Pending(d)) => txid[c] # txid[d]
  /\ \A c \in Calls : Pending(c) => pending_requests[txid[c]] = c

\* ------------------------------------------------------------ SpecSensor
InitSensor ==
  InitConn /\ InitReqVars /\ InitSensorVars /\ InitSSEVars /\ InitNotifVars
    /\ InitReadVars /\ InitMoreVars

sensorFrame == <<sensor_config, connVars>>

NextSensor ==
  \/ \E rc \in {0, 5} : on_connect(rc) /\ UNCHANGED <<sensor_config, reqVars, sensorVars, sseVars, extraVars>>
  \/ on_disconnect /\ UNCHANGED <<sensor_config, reqVars, sensorVars, sseVars, extraVars>>
  \/ \E i, o \in DeviceArgs, u \in UnitArgs : CfgStart(i, o, u) /\ UNCHANGED <<reqVars, sseVars, extraVars>>
  \/ \E r \in RoleSet : CfgAssign(r) /\ UNCHANGED <<reqVars, sseVars, extraVars>>
  \/ \E r \in RoleSet : CfgClear(r) /\ UNCHANGED <<reqVars, sseVars, extraVars>>
  \/ \E ok \in {TRUE} : CfgFinish(ok) /\ UNCHANGED <<reqVars, sseVars, extraVars>>   \* the save succeeds
  \/ \E d \in Devices, p \in Payloads : SMsgMatch(d, p) /\ UNCHANGED <<sensorFrame, reqVars, sseVars, extraVars>>
  \/ SMsgAppend /\ UNCHANGED <<sensorFrame, reqVars, sseVars, extraVars>>
  \/ SMsgCurrent /\ UNCHANGED <<sensorFrame, reqVars, sseVars, extraVars>>
  \/ SMsgSave /\ UNCHANGED <<sensorFrame, reqVars, sseVars, extraVars>>

SpecSensor == InitSensor /\ [][NextSensor]_vars

\* C6: every step that establishes a connection (on_connect with rc = 0)
\* leaves every topic of an assigned role subscribed on the new connection.
C6_SubscriptionsReasserted ==
  [][(~mqtt_connected /\ mqtt_connected') =>
       NeededTopics(sensor_config') \subseteq brokerSubs']_vars

\* the readings held for a role
ReadingsOf(role) ==
  {sensors[role].history[i] : i \in 1..Len(sensors[role].history)}
    \cup (IF sensors[role].current.timestamp # 0
          THEN {sensors[role].current} ELSE {})

\* C10: once set_sensor_config has returned, every reading held as a role's
\* history or current state was published by the device assigned to the role.
C10_NoReadingOfReplacedDevice ==
  cfgpc = "idle" =>
    \A role \in RoleSet : \A r \in ReadingsOf(role) : r.src = sensor_config[role]

\* --------------------------------------------------------------- SpecSSE
InitSSE ==
  InitConn /\ InitReqVars /\ InitSensorVars /\ InitSSEVars /\ InitNotifVars
    /\ InitReadVars /\ InitMoreVars

sseFrame == <<connVars, sensor_config, reqVars, sensorVars, extraVars>>

NextSSE ==
  \/ \E t \in Broadcasters : BStart(t) /\ UNCHANGED sseFrame
  \/ \E t \in Broadcasters : BPut(t) /\ UNCHANGED sseFrame
  \/ \E t \in Broadcasters : BEnd(t) /\ UNCHANGED sseFrame
  \/ \E s \in Streams : SubStart(s) /\ UNCHANGED sseFrame
  \/ \E s \in Streams : SubRegister(s) /\ UNCHANGED sseFrame
  \/ \E s \in Streams : SubGet(s) /\ UNCHANGED sseFrame
  \/ \E s \in Streams : SubClose(s) /\ UNCHANGED sseFrame
  \/ \E s \in Streams : SubFinally(s) /\ UNCHANGED sseFrame

SpecSSE == InitSSE /\ [][NextSSE]_vars

Listed(s) == s \in Range(subscribers)
NoBroadcastRunning == \A t \in Broadcasters : bpc[t] = "idle"
\* the streams a running broadcast has found full and not yet removed
FoundFull == UNION {Range(bdead[t]) : t \in Broadcasters}

\* C7: broadcast enqueues the message on every listed subscriber whose queue
\* has space and removes exactly those it finds full: a queue never exceeds
\* its capacity, a subscriber that was never found full has received every
\* broadcast that reached it, a subscriber is dropped after exactly one full
\* put, and between broadcasts every listed subscriber has received every
\* message broadcast since it registered; so a subscriber that never reads
\* is gone once more than QueueMax messages were broadcast to it.  A running
\* broadcast can always take its next step.
C7_BroadcastDropsExactlyFullQueues ==
  /\ \A s \in Streams :
       /\ Len(queue[s]) <= QueueMax
       /\ visits[s] = nread[s] + Len(queue[s])
                        + (IF s \in dropped \cup FoundFull THEN 1 ELSE 0)
       /\ s \in dropped => ~Listed(s)
       /\ (NoBroadcastRunning /\ Listed(s)) =>
            nread[s] + Len(queue[s]) = bcount - regAt[s]
       /\ (NoBroadcastRunning /\ nread[s] = 0 /\ spc[s] = "open"
             /\ bcount - regAt[s] > QueueMax) => ~Listed(s)
  /\ \A t \in Broadcasters : bpc[t] = "iter" => ENABLED (BPut(t) \/ BEnd(t))

\* a subscriber that never read was dropped with a full queue while another
\* one, still listed, has received more than QueueMax messages
C7_Witness ==
  /\ NoBroadcastRunning
  /\ \E s, r \in Streams :
       /\ s \in dropped /\ nread[s] = 0 /\ Len(queue[s]) = QueueMax
       /\ Listed(r) /\ nread[r] + Len(queue[r]) > QueueMax
       /\ nread[r] + Len(queue[r]) = bcount - regAt[r]

\* C8: the queue of a closed stream is not in the subscriber list, and the
\* list holds only queues of streams that are open (or are being closed and
\* have not yet run their finally block), each once.
C8_ClosedStreamsUnlisted ==
  /\ \A s \in Streams : spc[s] = "closed" => ~Listed(s)
  /\ \A i \in 1..Len(subscribers) :
       /\ spc[subscribers[i]] \in {"open", "closing"}
       /\ \A j \in 1..Len(subscribers) : subscribers[i] = subscribers[j] => i = j

\* one stream was closed after a broadcast had removed it, another one was
\* closed while listed
C8_Witness ==
  \E s, r \in Streams :
    /\ spc[s] = "closed" /\ s \in dropped
    /\ spc[r] = "closed" /\ r \notin dropped /\ visits[r] > 0

\* a broadcast in its loop holds the lock
IteratingHoldsLock == \A t \in Broadcasters : bpc[t] = "iter" => sselock = t

\* the list changes only in a step that found the lock free (a whole
\* "with self._lock" block) or in the step that ends the lock holder's
\* broadcast
ListChangesUnderLock ==
  subscribers' # subscribers =>
    \/ sselock = NoThread
    \/ /\ sselock \in Broadcasters
       /\ bpc[sselock] = "iter"
       /\ bpc'[sselock] = "idle"

\* C9: the subscriber list is mutated and iterated only under the lock: a
\* broadcast that is iterating holds the lock (so at most one iterates), and
\* while it does no other thread changes the list.
C9_ListOnlyUnderLock == []IteratingHoldsLock /\ [][ListChangesUnderLock]_vars

\* a broadcast is in the middle of its loop while one stream waits to
\* register and another waits to unsubscribe
C9_Witness ==
  \E t \in Broadcasters, s, r \in Streams :
    /\ bpc[t] = "iter" /\ bidx[t] = 2 /\ Len(subscribers) >= 1
    /\ spc[s] = "register" /\ spc[r] = "closing"

\* ------------------------------------------------------------- SpecStore
\* The public API of notification_service.py on the tables, at one instant.
InitStore ==
  InitConn /\ InitReqVars /\ InitSensorVars /\ InitSSEVars /\ InitNotifVars
    /\ InitReadVars /\ InitMoreVars

storeFrame ==
  <<connVars, sensor_config, reqVars, sensorVars, sseVars, readVars, moreVars>>

NextStore ==
  \/ \E t \in Types, n \in Names, d \in DueArgs, p \in DataArgs : add_event(t, n, d, p) /\ UNCHANGED storeFrame
  \/ \E i \in Ids : delete_event(i) /\ UNCHANGED storeFrame
  \/ \E i \in Ids, permanent \in BOOLEAN : dismiss_event(i, NoHours, permanent, FALSE) /\ UNCHANGED storeFrame
  \/ \E i \in Ids : undismiss_event(i) /\ UNCHANGED storeFrame

SpecStore == InitStore /\ [][NextStore]_vars

\* C12: a call of add_event for a (type, name) that already has an event
\* deletes the event's dismissal record when the normalized new due_date
\* differs from the stored one, and leaves the record as it is otherwise.
C12_DismissalClearedIffDueChanged ==
  [][\A t \in Types, n \in Names, d \in DueArgs, p \in DataArgs :
       add_event(t, n, d, p) =>
         \A r \in SelectEvent(events, t, n) :
           IF NormalizeDue(d) # r.due_date
           THEN dismissed'[r.id] = NoDismissal
           ELSE dismissed'[r.id] = dismissed[r.id]]_vars

\* an event that was dismissed and re-registered with another due_date
C12_Witness ==
  \E r \in events : dismissHist[r.id].cleared /\ dismissed[r.id] = NoDismissal

UniqueTypeName ==
  \A r1, r2 \in events : (r1.type = r2.type /\ r1.name = r2.name) => r1 = r2

UpdatedInPlace ==
  \A t \in Types, n \in Names, d \in DueArgs, p \in DataArgs :
    add_event(t, n, d, p) =>
      \A r \in SelectEvent(events, t, n) :
        SelectEvent(events', t, n) =
          {[id |-> r.id, type |-> t, name |-> n, due_date |-> NormalizeDue(d),
            data |-> DumpData(p)]}

\* C13: the events table never holds two events of one (type, name), and
\* add_event for a (type, name) that has an event leaves exactly that event,
\* under its old id, with the new due_date and payload.
C13_OneEventPerTypeName == []UniqueTypeName /\ [][UpdatedInPlace]_vars

\* an event re-registered under its id after another event was deleted
C13_Witness ==
  \E r \in events :
    /\ dismissHist[r.id].cleared
    /\ sqlite_sequence > Cardinality(events)
    /\ r.data # Null

\* --------------------------------------------------------------- SpecDue
\* Events, preferences and dismissals while time passes.
\* the argument shapes the dismiss endpoint passes on
DismissArgs ==
  {[hours |-> h, permanent |-> FALSE, until_midnight |-> FALSE] : h \in HoursArgs}
    \cup {[hours |-> DefaultHours, permanent |-> TRUE, until_midnight |-> FALSE],
          [hours |-> DefaultHours, permanent |-> FALSE, until_midnight |-> TRUE]}

InitDue ==
  InitConn /\ InitReqVars /\ InitSensorVars /\ InitSSEVars /\ InitNotifVars
    /\ InitReadVars /\ InitMoreVars

NextDue ==
  \/ \E t \in Types, n \in Names, d \in DueDays \cup {BadDate} : add_event(t, n, [date |-> d, time |-> ""], None) /\ UNCHANGED storeFrame
  \/ \E t \in Types, b \in BOOLEAN : set_type_enabled(t, b) /\ UNCHANGED storeFrame
  \/ \E a \in DismissArgs : dismiss_event(1, a.hours, a.permanent, a.until_midnight) /\ UNCHANGED storeFrame
  \/ undismiss_event(1) /\ UNCHANGED storeFrame
  \/ \E j \in Jumps : Advance(j) /\ UNCHANGED storeFrame

SpecDue == InitDue /\ [][NextDue]_vars

\* ids of the events of a due set
DueIds(result) == {n.id : n \in result.due}
\* the type of the event has an explicitly enabled preference
Enabled(r) == type_preferences[r.type] = "1"
\* the due_date of the event is a date before today, today or tomorrow
DueSoon(r) == ValidDate(r.due_date) /\ r.due_date.date <= Today(clock) + 1
\* the event has no dismissal record with now < dismissed_until
NotDismissed(r) ==
  dismissed[r.id] = NoDismissal \/ clock >= FromIsoFormat(dismissed[r.id])

\* C11: at every instant the due set of _check_notifications and of
\* get_due_notifications holds an event exactly if its type is explicitly
\* enabled, its due_date is before today, today or tomorrow, and it is not
\* currently dismissed.
C11_DueSetExact ==
  \A r \in events :
    LET expected == Enabled(r) /\ DueSoon(r) /\ NotDismissed(r)
    IN /\ r.id \in DueIds(CheckDue(clock)) <=> expected
       /\ r.id \in DueIds(get_due_notifications(clock)) <=> expected

\* C14: an event dismissed with permanent=True is in no due set at any
\* instant of the following 100 years, as long as the dismissal was not
\* removed by a changed due_date.
C14_PermanentNeverDue ==
  \A r \in events :
    (dismissHist[r.id].permanent /\ clock - dismissHist[r.id].at <= HundredYears)
      => /\ r.id \notin DueIds(CheckDue(clock))
         /\ r.id \notin DueIds(get_due_notifications(clock))

\* the expiry the caller asked for: h hours (4 when none are given) after
\* the call, or the next local midnight
RequestedUntil(call) ==
  IF call.until_midnight THEN (Today(call.at) + 1) * HoursPerDay
  ELSE call.at + (IF call.hours = NoHours THEN DefaultHours ELSE call.hours)

\* C15: an event under a timed dismissal (hours or until_midnight) is in no
\* due set before the expiry, is in the due set from the expiry on when it
\* is otherwise due, and its dismissal record stays stored.
C15_TimedDismissalExact ==
  \A r \in events :
    LET call == dismissHist[r.id]
    IN (call.at >= 0 /\ ~call.permanent) =>
         /\ dismissed[r.id] # NoDismissal
         /\ clock < RequestedUntil(call) =>
               r.id \notin DueIds(get_due_notifications(clock))
         /\ (clock >= RequestedUntil(call) /\ Enabled(r) /\ DueSoon(r)) =>
               r.id \in DueIds(get_due_notifications(clock))

\* C17: while one event has a due_date that is no calendar date, every
\* other event that is due, enabled and not dismissed is in the due set of
\* _check_notifications and of get_due_notifications.
C17_BadRecordIsolated ==
  \A bad \in events : ~ValidDate(bad.due_date) =>
    \A r \in events \ {bad} :
      (Enabled(r) /\ DueSoon(r) /\ NotDismissed(r)) =>
        /\ r.id \in DueIds(CheckDue(clock))
        /\ r.id \in DueIds(get_due_notifications(clock))

\* ------------------------------------------------------------- SpecSched
\* The scheduler thread beside the calls that change what it evaluates.
InitSched ==
  InitConn /\ InitReqVars /\ InitSensorVars /\ InitSSEVars /\ InitNotifVars
    /\ InitReadVars /\ InitMoreVars

\* a step of the scheduler thread
SchedStep == (SchedEvaluate \/ SchedWake \/ SchedExit) /\ UNCHANGED storeFrame

NextSched ==
  \/ SchedEvaluate /\ UNCHANGED storeFrame
  \/ SchedWake /\ UNCHANGED storeFrame
  \/ SchedExit /\ UNCHANGED storeFrame
  \/ SchedulerStop /\ UNCHANGED storeFrame
  \/ trigger_check /\ UNCHANGED storeFrame
  \/ \E t \in Types, n \in Names, d \in {1, BadDate} : add_event(t, n, [date |-> d, time |-> ""], None) /\ UNCHANGED storeFrame
  \/ \E t \in Types, b \in BOOLEAN : set_type_enabled(t, b) /\ UNCHANGED storeFrame
  \/ \E j \in {HoursPerDay} : Advance(j) /\ UNCHANGED storeFrame

\* The scheduler is a thread of its own: it is scheduled again and again,
\* and _scheduler_stop.wait(60) returns after 60 s at the latest.
SpecSched == InitSched /\ [][NextSched]_vars /\ WF_vars(SchedStep)

\* C16: the scheduler loop ends only once the stop event is set, and after
\* an evaluation that raised, a further evaluation follows unless the stop
\* event is set.
C16_SchedulerSurvivesFailure ==
  /\ [](schedpc = "exited" => scheduler_stop)
  /\ \A b \in {0, 1} :
       (schedRaised /\ evalFlip = b) ~> (evalFlip # b \/ scheduler_stop)

\* the loop caught an exception, waited, and is about to evaluate again
C16_Witness == schedRaised /\ schedpc = "loop" /\ ~scheduler_stop

\* -------------------------------------------------------------- SpecHist
\* One role's device publishes until the history has been full for a while;
\* every message arrives at an instant of its own.
InitHist ==
  InitConn /\ InitReqVars /\ InitSensorVars /\ InitSSEVars /\ InitNotifVars
    /\ InitReadVars /\ InitMoreVars

histFrame == <<sensorFrame, reqVars, sseVars, notifVars, moreVars>>

NextHist ==
  \/ on_connect(0) /\ UNCHANGED <<sensor_config, reqVars, sensorVars, sseVars, extraVars>>
  \/ \E d \in Devices, p \in Payloads : now = readings + 1 /\ SMsgMatchUpTo(d, p, MaxDeliveries) /\ UNCHANGED <<histFrame, arrivals>>
  \/ SMsgAppend /\ arrivals' = [arrivals EXCEPT ![smsgkey] = Append(@, smsgreading)] /\ UNCHANGED histFrame
  \/ SMsgCurrent /\ UNCHANGED <<histFrame, arrivals>>
  \/ SMsgSave /\ UNCHANGED <<histFrame, arrivals>>
  \/ now = readings /\ smsgpc = "idle" /\ ClockTick(1) /\ UNCHANGED <<histFrame, arrivals>>

SpecHist == InitHist /\ [][NextHist]_vars

\* the last n elements of a sequence
LastN(s, n) == IF Len(s) <= n THEN s ELSE SubSeq(s, Len(s) - n + 1, Len(s))

\* C18: a role's history never holds more than HISTORY_SIZE readings and is
\* always the most recent readings appended for the role, in arrival order:
\* an append to a full history drops the oldest reading.
C18_HistoryBoundedFifo ==
  \A role \in RoleSet :
    /\ Len(sensors[role].history) <= HISTORY_SIZE
    /\ sensors[role].history = LastN(arrivals[role], HISTORY_SIZE)

\* a full history that has already dropped its oldest reading
C18_Witness ==
  \E role \in RoleSet :
    /\ Len(sensors[role].history) = HISTORY_SIZE
    /\ Len(arrivals[role]) > HISTORY_SIZE
    /\ sensors[role].history[1] = arrivals[role][Len(arrivals[role]) - HISTORY_SIZE + 1]

\* -------------------------------------------------------------- SpecRead
\* Deliveries, role changes and the passing of time, as sensor_response
\* finds them.
InitRead ==
  InitConn /\ InitReqVars /\ InitSensorVars /\ InitSSEVars /\ InitNotifVars
    /\ InitReadVars /\ InitMoreVars

NextRead ==
  \/ on_connect(0) /\ UNCHANGED <<sensor_config, reqVars, sensorVars, sseVars, extraVars>>
  \/ \E i \in {"d1", NoDevice}, u \in {"F", None} : CfgStart(i, None, u) /\ UNCHANGED <<reqVars, sseVars, extraVars>>
  \/ \E r \in RoleSet : CfgAssign(r) /\ UNCHANGED <<reqVars, sseVars, extraVars>>
  \/ \E r \in RoleSet : CfgClear(r) /\ UNCHANGED <<reqVars, sseVars, extraVars>>
  \/ CfgFinish(TRUE) /\ UNCHANGED <<reqVars, sseVars, extraVars>>
  \/ \E d \in Devices, p \in Payloads \cup NullPayloads : SMsgMatchUpTo(d, p, MaxReadings + 1) /\ UNCHANGED <<sensorFrame, reqVars, sseVars, extraVars>>
  \/ SMsgAppend /\ UNCHANGED <<sensorFrame, reqVars, sseVars, extraVars>>
  \/ SMsgCurrent /\ UNCHANGED <<sensorFrame, reqVars, sseVars, extraVars>>
  \/ SMsgSave /\ UNCHANGED <<sensorFrame, reqVars, sseVars, extraVars>>
  \/ now % MAX_CACHE_AGE < MaxTicks /\ ClockTick(1) /\ UNCHANGED <<sensorFrame, reqVars, sseVars, extraVars>>
  \/ ClockTick(MAX_CACHE_AGE) /\ UNCHANGED <<sensorFrame, reqVars, sseVars, extraVars>>

SpecRead == InitRead /\ [][NextRead]_vars

\* C19: whenever a role's history is not empty, the role's current reading
\* is the last entry of the history, in every state a reader can observe.
C19_CurrentIsLastOfHistory ==
  \A role \in RoleSet :
    LET h == sensors[role].history
    IN Len(h) > 0 => sensors[role].current = h[Len(h)]

Unassigned == [available |-> FALSE]
Waiting == [available |-> FALSE, error |-> "Waiting for data"]
Offline == [available |-> FALSE, error |-> "Sensor offline"]

\* C20: sensor_response(role) returns the "unassigned" shape when the role
\* has no device, else the "waiting" shape when no reading was received, else
\* the "offline" shape when the reading is older than MAX_CACHE_AGE; the
\* three shapes differ, and in every other state the result has
\* available = True.
C20_ThreeUnavailableShapes ==
  /\ Unassigned # Waiting /\ Waiting # Offline /\ Unassigned # Offline
  /\ \A role \in RoleSet :
       LET r == sensor_response(role, now)
           c == sensors[role].current
       IN IF sensor_config[role] = NoDevice THEN r = Unassigned
          ELSE IF c.timestamp = 0 THEN r = Waiting
          ELSE IF now - c.timestamp > MAX_CACHE_AGE THEN r = Offline
          ELSE "available" \in DOMAIN r /\ r.available

\* ------------------------------------------------------------- SpecCache
\* Deliveries whose cache write succeeds or fails, and restarts.
InitCache ==
  InitConn /\ InitReqVars /\ InitSensorVars /\ InitSSEVars /\ InitNotifVars
    /\ InitReadVars /\ InitMoreVars

MaxCached == 4       \* sensor messages delivered between the restarts

NextCache ==
  \/ on_connect(0) /\ UNCHANGED <<sensor_config, reqVars, sensorVars, sseVars, extraVars>>
  \/ \E d \in Devices, p \in Payloads \cup NullPayloads \cup ListPayloads \cup PartialPayloads : now = readings + 1 /\ SMsgMatchUpTo(d, p, MaxCached) /\ UNCHANGED <<sensorFrame, reqVars, sseVars, extraVars>>
  \/ \E d \in Devices, k \in Unparsed : now = readings + 1 /\ SMsgUnparsed(d, k, MaxCached) /\ UNCHANGED <<sensorFrame, reqVars, sseVars, extraVars>>
  \/ SMsgAppend /\ UNCHANGED <<sensorFrame, reqVars, sseVars, extraVars>>
  \/ SMsgCurrent /\ UNCHANGED <<sensorFrame, reqVars, sseVars, extraVars>>
  \/ SMsgSave /\ UNCHANGED <<sensorFrame, reqVars, sseVars, extraVars>>
  \/ SMsgSaveFails /\ UNCHANGED <<sensorFrame, reqVars, sseVars, extraVars>>
  \/ now = readings /\ smsgpc = "idle" /\ ClockTick(1) /\ UNCHANGED <<sensorFrame, reqVars, sseVars, extraVars>>
  \/ Restart /\ UNCHANGED <<reqVars, sseVars, extraVars>>

SpecCache == InitCache /\ [][NextCache]_vars

\* the rows of a role
RowsOf(role) == {r \in cache : r.role = role}
\* the reading a row holds
ReadingOf(row) ==
  SensorReading(row.temperature, row.humidity, row.battery, row.timestamp, row.src)

OneRowPerRole == \A r1, r2 \in cache : r1.role = r2.role => r1 = r2

RowIsSavedReading ==
  SMsgSave =>
    {ReadingOf(r) : r \in {x \in cache' : x.role = smsgkey}} = {smsgreading}

RestartLoadsRows ==
  Restart =>
    \A role \in RoleSet :
      /\ sensors'[role].history = <<>>
      /\ IF RowsOf(role) = {}
         THEN sensors'[role].current = DefaultReading
         ELSE \A r \in RowsOf(role) : sensors'[role].current = ReadingOf(r)

\* C21: the cache holds at most one row per role; a successful write of
\* on_message leaves the role's row equal to the reading; a restart leaves
\* every role with an empty history and its cached row (if any) as current.
C21_OnlyCurrentIsDurable ==
  /\ []OneRowPerRole
  /\ [][RowIsSavedReading]_vars
  /\ [][RestartLoadsRows]_vars

\* after a restart: the cached reading is current and the history is empty
C21_Witness ==
  \E role \in RoleSet :
    /\ sensors[role].history = <<>>
    /\ sensors[role].current.timestamp # 0
    /\ \E r \in RowsOf(role) : ReadingOf(r) = sensors[role].current
    /\ readings >= 2

\* the handler is about to write a reading that sqlite3 rejects
SaveWillRaise == smsgpc = "save" /\ ~Bindable(smsgreading)

\* C22: on_message never lets an exception out, and a payload it cannot
\* process (json.loads, data.get or the cache write raises on it) leaves
\* every role's history and current reading and the pending transactions
\* as they were when the message arrived.
C22_UnprocessedPayloadLeavesState ==
  /\ [][\A d \in Devices, k \in Unparsed :
         SMsgUnparsed(d, k, MaxCached) =>
           UNCHANGED <<sensors, pending_requests, request_results>>]_vars
  /\ [](SaveWillRaise =>
         \A role \in RoleSet :
           /\ sensors[role].current # smsgreading
           /\ smsgreading \notin Range(sensors[role].history))

\* -------------------------------------------------------------- SpecLoop
\* The MQTT thread: connect attempts, the network loop with its callbacks,
\* failures and the sleep between attempts.
InitLoop ==
  InitConn /\ InitReqVars /\ InitSensorVars /\ InitSSEVars /\ InitNotifVars
    /\ InitReadVars /\ InitMoreVars

LoopSleepStep ==
  LoopSleep /\ UNCHANGED <<sensorFrame, reqVars, sseVars, loopFrame>>

InLoopForever == looppc = "loop_forever"

NextLoop ==
  \/ LoopConnectOk /\ UNCHANGED <<sensor_config, connVars, reqVars, sensorVars, sseVars, loopFrame>>
  \/ LoopConnectFails /\ UNCHANGED <<sensor_config, connVars, reqVars, sensorVars, sseVars, loopFrame>>
  \/ smsgpc = "idle" /\ LoopForeverRaises /\ UNCHANGED <<sensor_config, connVars, reqVars, sensorVars, sseVars, loopFrame>>
  \/ smsgpc = "idle" /\ LoopForeverRaises /\ on_disconnect /\ UNCHANGED <<sensor_config, reqVars, sensorVars, sseVars, loopFrame>>
  \/ smsgpc = "idle" /\ LoopForeverReturns /\ on_disconnect /\ UNCHANGED <<sensor_config, reqVars, sensorVars, sseVars, loopFrame>>
  \/ LoopSleepStep
  \/ \E rc \in {0, 5} : InLoopForever /\ on_connect(rc) /\ UNCHANGED <<sensor_config, reqVars, sensorVars, sseVars, extraVars>>
  \/ InLoopForever /\ on_disconnect /\ UNCHANGED <<sensor_config, reqVars, sensorVars, sseVars, extraVars>>
  \/ \E d \in Devices, p \in Payloads : InLoopForever /\ SMsgMatchUpTo(d, p, MaxAttempts) /\ UNCHANGED <<sensorFrame, reqVars, sseVars, extraVars>>
  \/ SMsgAppend /\ UNCHANGED <<sensorFrame, reqVars, sseVars, extraVars>>
  \/ SMsgCurrent /\ UNCHANGED <<sensorFrame, reqVars, sseVars, extraVars>>
  \/ SMsgSave /\ UNCHANGED <<sensorFrame, reqVars, sseVars, extraVars>>

\* time.sleep(30) returns
SpecLoop == InitLoop /\ [][NextLoop]_vars /\ WF_vars(LoopSleepStep)

\* C23: a failed connect and an exception out of the network loop both
\* lead to the sleep of the fixed interval and from there to the next
\* connect attempt; loop() never ends.
C23_LoopRetriesForever ==
  /\ [](looppc \in {"connect", "loop_forever", "sleep"})
  /\ [][LoopConnectFails \/ LoopForeverRaises => looppc' = "sleep"]_vars
  /\ [][looppc = "sleep" /\ looppc' # "sleep" =>
          looppc' = "connect" /\ now' = now + RetryInterval]_vars
  /\ (looppc = "sleep" ~> looppc = "connect")

\* a second failure was followed by the sleep and a third connect attempt
C23_Witness ==
  looppc = "loop_forever" /\ attempts = 3 /\ now = 1 + 2 * RetryInterval

\* -------------------------------------------------------------- SpecSubs
\* Role assignments and connections, with the calls update_subscriptions
\* makes on the client.
InitSubs ==
  InitConn /\ InitReqVars /\ InitSensorVars /\ InitSSEVars /\ InitNotifVars
    /\ InitReadVars /\ InitMoreVars

\* the subscribe and unsubscribe calls of update_subscriptions()
IssuedCalls(connected, cfg, subscribed) ==
  LET u == update_subscriptions(connected, cfg, subscribed, {})
  IN [sub |-> u.sub, unsub |-> u.unsub]

NextSubs ==
  \/ on_connect(0) /\ mqttCalls' = IssuedCalls(TRUE, sensor_config, subscribed_topics) /\ UNCHANGED <<sensor_config, sensorVars, subsFrame>>
  \/ on_connect(5) /\ UNCHANGED <<sensor_config, reqVars, sensorVars, sseVars, extraVars>>
  \/ on_disconnect /\ UNCHANGED <<sensor_config, reqVars, sensorVars, sseVars, extraVars>>
  \/ \E i, o \in DeviceArgs : CfgStart(i, o, None) /\ UNCHANGED <<reqVars, sseVars, extraVars>>
  \/ \E r \in RoleSet : CfgAssign(r) /\ UNCHANGED <<reqVars, sseVars, extraVars>>
  \/ \E r \in RoleSet : CfgClear(r) /\ UNCHANGED <<reqVars, sseVars, extraVars>>
  \/ \E ok \in BOOLEAN : CfgFinish(ok) /\ mqttCalls' = IssuedCalls(mqtt_connected, sensor_config', subscribed_topics) /\ cfg_result' = SetSensorConfigReturn(sensor_config') /\ UNCHANGED <<reqVars, sseVars, notifVars, readVars, loopVars, streamVars, trendVars, api_result, lateVars>>

SpecSubs == InitSubs /\ [][NextSubs]_vars

\* the topic of some assigned role
StillAssigned(cfg, topic) ==
  \E r \in RoleSet :
    cfg[r] # NoDevice /\ topic = get_topic_for_device(cfg[r])

DeviceTopics == {get_topic_for_device(d) : d \in Devices}

\* C24: a connected update_subscriptions calls subscribe exactly for the
\* assigned topics not yet in subscribed_topics and unsubscribe exactly for
\* the topics of subscribed_topics no role is assigned to any more, and
\* leaves subscribed_topics equal to the assigned topics.
C24_SubscriptionDelta ==
  [][(mqtt_connected /\ \E ok \in BOOLEAN : CfgFinish(ok)) \/ on_connect(0) =>
       /\ mqttCalls'.sub =
            {t \in DeviceTopics :
               StillAssigned(sensor_config', t) /\ t \notin subscribed_topics}
       /\ mqttCalls'.unsub =
            {t \in subscribed_topics : ~StillAssigned(sensor_config', t)}
       /\ subscribed_topics' =
            {t \in DeviceTopics : StillAssigned(sensor_config', t)}]_vars

\* a connected set_sensor_config moved a role to another device: its
\* update_subscriptions unsubscribed one topic and subscribed another
C24_Witness ==
  /\ mqtt_connected
  /\ mqttCalls.unsub # {}
  /\ mqttCalls.sub # {}
  /\ cfgpc = "idle"

\* ------------------------------------------------------------ SpecStream
\* subscribe() generators with their initial messages, and broadcasts.
MaxStreamed == 2     \* broadcasts
MaxYields == 3       \* items a generator yields

InitialArgs == {None, EmptyDict, "connected"}

\* an item a generator yields
Item(kind, msg) == [kind |-> kind, msg |-> msg]
Keepalive == Item("keepalive", 0)

\* line 54: if initial_message: an empty dict is false
Truthy(message) == message \notin {None, EmptyDict}

\* line 54-55: the initial message is yielded, or skipped
SubInitial(s) ==
  /\ spc[s] = "open"
  /\ ~sinit[s]
  /\ sinit' = [sinit EXCEPT ![s] = TRUE]
  /\ yielded' = [yielded EXCEPT ![s] =
                   IF Truthy(initial_message[s])
                   THEN Append(@, Item("initial", initial_message[s]))
                   ELSE @]
  /\ UNCHANGED <<initial_message, sseVars>>

\* line 63-67: the queue is empty: sleep one second, yield a keepalive
SubKeepalive(s) ==
  /\ spc[s] = "open"
  /\ sinit[s]
  /\ queue[s] = <<>>
  /\ yielded' = [yielded EXCEPT ![s] = Append(@, Keepalive)]
  /\ UNCHANGED <<initial_message, sinit, sseVars>>

InitStream ==
  InitConn /\ InitReqVars /\ InitSensorVars /\ InitSSEVars /\ InitNotifVars
    /\ InitReadVars /\ InitMoreVars

NextStream ==
  \/ \E t \in Broadcasters : bcount < MaxStreamed /\ BStart(t) /\ UNCHANGED sseFrame
  \/ \E t \in Broadcasters : BPut(t) /\ UNCHANGED sseFrame
  \/ \E t \in Broadcasters : BEnd(t) /\ UNCHANGED sseFrame
  \/ \E s \in Streams, m \in InitialArgs : SubStart(s) /\ initial_message' = [initial_message EXCEPT ![s] = m] /\ UNCHANGED <<sinit, yielded, streamFrame>>
  \/ \E s \in Streams : SubRegister(s) /\ UNCHANGED sseFrame
  \/ \E s \in Streams : SubInitial(s) /\ UNCHANGED streamFrame
  \/ \E s \in Streams : sinit[s] /\ Len(yielded[s]) < MaxYields /\ SubGet(s) /\ yielded' = [yielded EXCEPT ![s] = Append(@, Item("data", Head(queue[s])))] /\ UNCHANGED <<initial_message, sinit, streamFrame>>
  \/ \E s \in Streams : Len(yielded[s]) < MaxYields /\ SubKeepalive(s) /\ UNCHANGED streamFrame
  \/ \E s \in Streams : SubClose(s) /\ UNCHANGED sseFrame
  \/ \E s \in Streams : SubFinally(s) /\ UNCHANGED sseFrame

SpecStream == InitStream /\ [][NextStream]_vars

\* the broadcast messages among the yielded items, in order
DataOf(items) ==
  LET IsData(x) == x.kind = "data"
      d == SelectSeq(items, IsData)
  IN [i \in 1..Len(d) |-> d[i].msg]

\* the initial message, when given, is the first item yielded
InitialFirst(s) ==
  (initial_message[s] # None /\ sinit[s]) =>
    /\ yielded[s] # <<>>
    /\ yielded[s][1] = Item("initial", initial_message[s])

\* what was yielded and what waits in the queue are, in order and once
\* each, the broadcasts made since the queue was registered
NoneLostInOrder(s) ==
  LET seen == DataOf(yielded[s]) \o queue[s]
  IN \A i \in 1..Len(seen) : seen[i] = regAt[s] + i

\* broadcasts come after the first item, once each and in order
StreamOrder ==
  \A s \in Streams :
    /\ \A i \in 2..Len(yielded[s]) : yielded[s][i].kind # "initial"
    /\ NoneLostInOrder(s)

MaxHistory == 3

TempValues == {200, 203, 204}
HumidityValues == {500, 515, 516}
TrendReadings == [temperature : TempValues, humidity : HumidityValues]

SeqsUpTo(S, n) == UNION {[1..k -> S] : k \in 0..n}

InitTrend ==
  /\ InitConn /\ InitReqVars /\ InitSensorVars /\ InitSSEVars /\ InitNotifVars
  /\ InitReadVars /\ InitLoopVars /\ InitSubsVars /\ InitStreamVars
  /\ InitRetVars /\ InitLateVars
  /\ trend = None
  /\ \E h \in SeqsUpTo(TrendReadings, MaxHistory), a \in {"temperature", "humidity"} :
       \E c \in (IF a = "temperature" THEN TempValues ELSE HumidityValues) :
         trend_args = [current |-> c, history |-> h, attr |-> a]

NextTrend ==
  GetTrend /\ UNCHANGED <<connVars, sensor_config, reqVars, sensorVars, sseVars, notifVars, readVars, loopVars, subsVars, streamVars, retVars, lateVars>>

SpecTrend == InitTrend /\ [][NextTrend]_vars

\* C26: with fewer than two readings the trend is steady; otherwise it is
\* rising iff the current value exceeds the reading before the newest one
\* by more than the threshold, falling iff it is below it by more than the
\* threshold, and steady otherwise.
C26_TrendAgainstPrevious ==
  trend # None =>
    LET h == trend_args.history
        n == Len(h)
        thr == IF trend_args.attr = "temperature" THEN 3 ELSE 15
    IN IF n < 2 THEN trend = "steady"
       ELSE LET diff == trend_args.current - h[n - 1][trend_args.attr]
            IN /\ trend = "rising" <=> diff > thr
               /\ trend = "falling" <=> diff < -thr
               /\ trend = "steady" <=> (diff <= thr /\ diff >= -thr)

\* rising against history[-2] although the newest and the oldest entry
\* both equal the current value
C26_Witness ==
  /\ trend = "rising"
  /\ Len(trend_args.history) = 3
  /\ trend_args.history[3][trend_args.attr] = trend_args.current
  /\ trend_args.history[1][trend_args.attr] = trend_args.current

\* --------------------------------------------------------------- SpecApi
\* The notification operations as the routers call them, with the type
\* preferences.
InitApi ==
  InitConn /\ InitReqVars /\ InitSensorVars /\ InitSSEVars /\ InitNotifVars
    /\ InitReadVars /\ InitMoreVars

apiFrame ==
  <<connVars, sensor_config, reqVars, sensorVars, sseVars, readVars, loopVars,
    subsVars, streamVars, trendVars, cfg_result, lateVars>>

ApiDue == [date : DueDays, time : {""}]

NextApi ==
  \/ \E t \in Types, n \in Names, d \in ApiDue : add_event(t, n, d, None) /\ api_result' = ApiResult(TRUE, None) /\ UNCHANGED apiFrame
  \/ \E i \in Ids : RouterDelete(i) /\ UNCHANGED apiFrame
  \/ \E i \in Ids, q \in Requests : RouterDismiss(i, q) /\ UNCHANGED apiFrame
  \/ \E t \in Types, b \in BOOLEAN : set_type_enabled(t, b) /\ api_result' = ApiResult(TRUE, None) /\ UNCHANGED apiFrame
  \/ \E t \in Types : delete_type_preference(t) /\ UNCHANGED apiFrame

SpecApi == InitApi /\ [][NextApi]_vars

\* C27: add_event gives a type without a preference row the unset value
\* and leaves every preference row that exists as it is.
C27_AddEventKeepsPreference ==
  [][\A t \in Types, n \in Names, d \in ApiDue :
       add_event(t, n, d, None) =>
         /\ \A u \in Types \ {t} : type_preferences'[u] = type_preferences[u]
         /\ type_preferences'[t] =
              (IF type_preferences[t] = NoPref THEN Null ELSE type_preferences[t])]_vars

\* the newest event is of a type that is disabled
C27_Witness ==
  \E r \in events :
    /\ type_preferences[r.type] = "0"
    /\ r.id = MaxId

\* a dismissal request that does not select exactly one supported mode
InvalidRequest(q) ==
  \/ q.permanent /\ q.until_midnight
  \/ ~q.permanent /\ ~q.until_midnight /\ q.hours # NoHours /\ q.hours <= 0

\* C28: delete_event with an id no event has, and a dismissal request with
\* both flags set or with hours that are not positive, are answered with
\* an error and leave the events, dismissals and preferences unchanged.
C28_InvalidInputRejected ==
  [][/\ \A i \in Ids :
          (RouterDelete(i) /\ ~\E r \in events : r.id = i) =>
            (~api_result'.success /\ UNCHANGED storeVars)
     /\ \A i \in Ids, q \in Requests :
          (RouterDismiss(i, q) /\ InvalidRequest(q)) =>
            (~api_result'.success /\ UNCHANGED storeVars)]_vars

\* C29: a set_sensor_config whose save_config failed does not report
\* success: whenever the call returns success, the mapping it returns is
\* the one in the dashboard configuration.
C29_SaveFailureSurfaced ==
  [][(cfgpc = "finish" /\ cfgpc' = "idle" /\ cfg_result'.success) =>
       saved_config' = cfg_result'.config]_vars

\* delete_type_preference(t) removes what belongs to t and nothing else
DeletesOnlyType(t) ==
  delete_type_preference(t) =>
    /\ type_preferences'[t] = NoPref
    /\ \A u \in Types \ {t} : type_preferences'[u] = type_preferences[u]
    /\ events' = {r \in events : r.type # t}
    /\ \A r \in events :
         dismissed'[r.id] = (IF r.type = t THEN NoDismissal ELSE dismissed[r.id])

\* an event added for a type without a preference registers it as unset
ReaddedUnconfigured(t) ==
  (type_preferences[t] = NoPref /\ \E n \in Names, d \in ApiDue : add_event(t, n, d, None)) =>
    type_preferences'[t] = Null

\* only events of enabled types are in the due set
DueOnlyEnabled ==
  \A n \in get_due_notifications(clock).due : type_preferences[n.type] = "1"

\* C30: delete_type_preference removes the preference of the type, its
\* events and their dismissals and nothing of another type; an event of the
\* type added afterwards registers the type as unconfigured, and events of
\* a type that is not enabled are not in the due set.
C30_DeleteTypeIsolated ==
  /\ [][\A t \in Types : DeletesOnlyType(t) /\ ReaddedUnconfigured(t)]_vars
  /\ []DueOnlyEnabled

\* a type was deleted while a dismissed event of the other, enabled type
\* stayed
C30_Witness ==
  \E t \in Types, r \in events :
    /\ api_result = ApiResult(TRUE, t)
    /\ type_preferences[t] = NoPref
    /\ sqlite_sequence = MaxId
    /\ r.type # t
    /\ type_preferences[r.type] = "1"
    /\ dismissed[r.id] # NoDismissal

\* the reading on_message builds from a payload whose fields are absent
\* has the value zero(f) in every absent field f
AbsentFieldsAre(zero) ==
  \A d \in Devices, p \in PartialPayloads :
    (SMsgMatchUpTo(d, p, MaxCached) /\ smsgpc' = "append") =>
      \A f \in {"temperature", "humidity", "battery"} :
        p[f] = Absent => smsgreading'[f] = zero[f]

\* C31 as stated: every absent numeric field, battery included, is
\* recorded as zero.
C31_AbsentFieldsZero ==
  [][AbsentFieldsAre([temperature |-> 0, humidity |-> 0, battery |-> 0])]_vars

\* C31, amended: an absent temperature or humidity is recorded as zero and
\* an absent battery level as 100.
C31_AbsentFieldsDefault ==
  [][AbsentFieldsAre([temperature |-> 0, humidity |-> 0, battery |-> 100])]_vars

\* a reading built from a payload without fields is a role's current one
C31_Witness ==
  \E role \in RoleSet :
    /\ sensors[role].current.timestamp > 0
    /\ sensors[role].current.temperature = 0
    /\ sensors[role].current.humidity = 0
    /\ sensors[role].current.battery = 100

\* -------------------------------------------------------------- SpecPush
\* on_message deliveries while viewers are subscribed and the notification
\* scheduler broadcasts.
MaxPushed == 2       \* sensor messages delivered

InitPush ==
  InitConn /\ InitReqVars /\ InitSensorVars /\ InitSSEVars /\ InitNotifVars
    /\ InitReadVars /\ InitMoreVars

pushFrame == <<sensorFrame, reqVars, sseVars, extraVars>>

NextPush ==
  \/ on_connect(0) /\ UNCHANGED <<sensor_config, reqVars, sensorVars, sseVars, extraVars>>
  \/ \E d \in Devices, p \in Payloads : SMsgMatchUpTo(d, p, MaxPushed) /\ UNCHANGED pushFrame
  \/ SMsgAppend /\ UNCHANGED pushFrame
  \/ SMsgCurrent /\ UNCHANGED pushFrame
  \/ SMsgSave /\ UNCHANGED pushFrame
  \/ \E t \in Broadcasters : bcount < MaxStreamed /\ BStart(t) /\ UNCHANGED sseFrame
  \/ \E t \in Broadcasters : BPut(t) /\ UNCHANGED sseFrame
  \/ \E t \in Broadcasters : BEnd(t) /\ UNCHANGED sseFrame
  \/ \E s \in Streams : SubStart(s) /\ UNCHANGED sseFrame
  \/ \E s \in Streams : SubRegister(s) /\ UNCHANGED sseFrame
  \/ \E s \in Streams : SubGet(s) /\ UNCHANGED sseFrame

SpecPush == InitPush /\ [][NextPush]_vars

\* on_message has stored a reading for a role and returns
ReadingAccepted == smsgpc = "save" /\ smsgpc' = "idle"

\* C32: every reading on_message accepts for a role is broadcast to the
\* viewers subscribed at that time: when the handler returns, the queue of
\* every listed subscriber has been handed a message.
C32_AcceptedReadingBroadcast ==
  [][ReadingAccepted => \A s \in Range(subscribers) : visits'[s] > visits[s]]_vars

\* ------------------------------------------------------------ SpecRouter
\* The sensors router's status and devices routes while the client connects
\* and disconnects, device lists arrive and the configuration is changed.
\* routers/sensors.py binds available_devices, mqtt_connected and
\* sensor_config by "from app.services.mqtt_service import ...": each name
\* keeps the object the module held at the import, and the module's
\* "global" assignments (lines 134, 263, 280, 310) do not reach it.

\* an entry of the bridge's device list
Device(name, climate) == [friendly_name |-> name, climate |-> climate]
DeviceLists ==
  {<<>>, <<Device("d1", TRUE)>>, <<Device("d1", TRUE), Device("plug", FALSE)>>,
   <<Device("d2", TRUE), Device("d1", TRUE)>>}

\* line 310-319: the devices that expose a temperature, in the list's order
ClimateDevices(list) ==
  LET IsClimate(d) == d.climate
      c == SelectSeq(list, IsClimate)
  IN [i \in 1..Len(c) |-> [friendly_name |-> c[i].friendly_name]]

\* on_message, line 286-326: a device list arrives on bridge/devices
DevicesMessage(list) ==
  /\ mqtt_connected
  /\ "zigbee2mqtt/bridge/devices" \in brokerSubs
  /\ available_devices' = ClimateDevices(list)
  /\ UNCHANGED <<status_result, devices_result>>

\* routers/sensors.py, status(): the imported mqtt_connected
GetStatus ==
  /\ status_result' = [mqtt_connected |-> ImportedConnected]
  /\ UNCHANGED <<available_devices, devices_result>>

\* routers/sensors.py, devices(): the imported list and dict
GetDevices ==
  /\ devices_result' = [devices |-> ImportedDevices, config |-> ImportedConfig]
  /\ UNCHANGED <<available_devices, status_result>>

InitRouter ==
  InitConn /\ InitReqVars /\ InitSensorVars /\ InitSSEVars /\ InitNotifVars
    /\ InitReadVars /\ InitMoreVars

routerFrame ==
  <<connVars, sensor_config, reqVars, sensorVars, sseVars, notifVars, readVars,
    loopVars, subsVars, streamVars, trendVars, retVars>>

NextRouter ==
  \/ \E rc \in {0, 5} : on_connect(rc) /\ UNCHANGED <<sensor_config, reqVars, sensorVars, sseVars, extraVars>>
  \/ on_disconnect /\ UNCHANGED <<sensor_config, reqVars, sensorVars, sseVars, extraVars>>
  \/ \E i \in DeviceArgs, o \in {"d2", None} : CfgStart(i, o, None) /\ UNCHANGED <<reqVars, sseVars, extraVars>>
  \/ \E r \in RoleSet : CfgAssign(r) /\ UNCHANGED <<reqVars, sseVars, extraVars>>
  \/ \E r \in RoleSet : CfgClear(r) /\ UNCHANGED <<reqVars, sseVars, extraVars>>
  \/ \E ok \in {TRUE} : CfgFinish(ok) /\ UNCHANGED <<reqVars, sseVars, extraVars>>
  \/ \E l \in DeviceLists : DevicesMessage(l) /\ UNCHANGED routerFrame
  \/ GetStatus /\ UNCHANGED routerFrame
  \/ GetDevices /\ UNCHANGED routerFrame

SpecRouter == InitRouter /\ [][NextRouter]_vars

\* C36: GET /sensors/status returns the current mqtt_connected, and GET
\* /sensors/devices returns the latest climate-device list and the current
\* role assignment.
C36_RouterReportsLiveState ==
  [][/\ (GetStatus /\ UNCHANGED routerFrame) =>
          status_result' = [mqtt_connected |-> mqtt_connected]
     /\ (GetDevices /\ UNCHANGED routerFrame) =>
          devices_result' = [devices |-> available_devices,
                             config |-> sensor_config]]_vars

\* C33: every dismissal record refers to an existing event (so that an event
\* add_event creates is not dismissed from the start).
C33_DismissalsReferToEvents ==
  \A i \in Ids : dismissed[i] # NoDismissal => \E r \in events : r.id = i

\* -------------------------------------------------------------- SpecRole
\* Deliveries, set_sensor_config calls and restarts: which role a reading
\* belongs to.
MaxRoled == 2        \* sensor messages delivered

InitRole ==
  InitConn /\ InitReqVars /\ InitSensorVars /\ InitSSEVars /\ InitNotifVars
    /\ InitReadVars /\ InitMoreVars

NextRole ==
  \/ on_connect(0) /\ UNCHANGED <<sensor_config, reqVars, sensorVars, sseVars, extraVars>>
  \/ \E i, o \in DeviceArgs : CfgStart(i, o, None) /\ UNCHANGED <<reqVars, sseVars, extraVars>>
  \/ \E r \in RoleSet : CfgAssign(r) /\ UNCHANGED <<reqVars, sseVars, extraVars>>
  \/ \E r \in RoleSet : CfgClear(r) /\ UNCHANGED <<reqVars, sseVars, extraVars>>
  \/ \E ok \in {TRUE} : CfgFinish(ok) /\ UNCHANGED <<reqVars, sseVars, extraVars>>
  \/ \E d \in Devices, p \in Payloads : now = readings + 1 /\ SMsgMatchUpTo(d, p, MaxRoled) /\ UNCHANGED pushFrame
  \/ SMsgAppend /\ UNCHANGED pushFrame
  \/ SMsgCurrent /\ UNCHANGED pushFrame
  \/ SMsgSave /\ UNCHANGED pushFrame
  \/ now = readings /\ smsgpc = "idle" /\ ClockTick(1) /\ UNCHANGED pushFrame
  \/ cfgpc = "idle" /\ Restart /\ UNCHANGED <<reqVars, sseVars, extraVars>>

SpecRole == InitRole /\ [][NextRole]_vars

\* C34: the reading a restart restores as a role's current reading was
\* published by the device that is assigned to the role at the restart.
C34_RestoredReadingOfAssignedDevice ==
  [][(cfgpc = "idle" /\ Restart) =>
       \A role \in RoleSet :
         sensors'[role].current # DefaultReading =>
           sensors'[role].current.src = sensor_config'[role]]_vars

\* the first of (indoor, outdoor) a device is assigned to
FirstRoleOf(cfg, d) ==
  IF cfg.indoor = d THEN "indoor"
  ELSE IF cfg.outdoor = d THEN "outdoor" ELSE None

\* the role's share of the sensor state
RoleState(s, c, role) == <<s[role], {r \in c : r.role = role}>>

\* the message is matched to the first role of its device; a message of a
\* device without a role is dropped
MatchedFirstRole ==
  \A d \in Devices, p \in Payloads :
    SMsgMatchUpTo(d, p, MaxRoled) =>
      /\ UNCHANGED <<sensors, cache>>
      /\ IF FirstRoleOf(sensor_config, d) = None
         THEN smsgpc' = "idle"
         ELSE /\ smsgpc' = "append"
              /\ smsgkey' = FirstRoleOf(sensor_config, d)
              /\ smsgreading'.src = d

\* the statements that store the reading change the matched role only
StoredForMatchedRole ==
  /\ (SMsgAppend \/ SMsgCurrent \/ SMsgSave) =>
       \A r \in RoleSet \ {smsgkey} :
         RoleState(sensors', cache', r) = RoleState(sensors, cache, r)
  /\ SMsgAppend =>
       sensors'[smsgkey].history[Len(sensors'[smsgkey].history)] = smsgreading
  /\ SMsgCurrent => sensors'[smsgkey].current = smsgreading
  /\ SMsgSave => RoleState(sensors', cache', smsgkey)[2] = {CacheRow(smsgkey, smsgreading)}

\* C39: a message on a role-mapped topic updates one role, the first of
\* (indoor, outdoor) whose device matches the topic, also when both roles
\* have that device; the other role's history, current reading and cache
\* row are unchanged; a message mapped to no role changes no sensor state.
C39_OneRoleUpdated == [][MatchedFirstRole /\ StoredForMatchedRole]_vars

\* one device on both roles, its reading stored for indoor only
C39_Witness ==
  /\ sensor_config.indoor = sensor_config.outdoor
  /\ sensor_config.indoor \in Devices
  /\ cfgpc = "idle" /\ smsgpc = "idle"
  /\ sensors.indoor.current.src = sensor_config.indoor
  /\ sensors.indoor.history # <<>>
  /\ sensors.outdoor = SensorData
  /\ \E r \in cache : r.role = "indoor" /\ r.src = sensor_config.indoor
  /\ ~\E r \in cache : r.role = "outdoor"

\* C35: every reading on_message stores as a role's current reading has a
\* numeric temperature and humidity, so that sensor_response does not raise.
C35_StoredReadingsNumeric ==
  \A role \in RoleSet :
    /\ ~NotNumeric(sensors[role].current)
    /\ sensor_response(role, now) # [raised |-> "TypeError"]

\* ------------------------------------------------------------ SpecNotify
\* _check_notifications (run by trigger_check) over stores with events of several
\* due dates, dismissals and days passing.
InitNotify ==
  InitConn /\ InitReqVars /\ InitSensorVars /\ InitSSEVars /\ InitNotifVars
    /\ InitReadVars /\ InitMoreVars

NextNotify ==
  \/ trigger_check /\ UNCHANGED storeFrame
  \/ \E t \in Types, d \in DueDays \cup {BadDate} : add_event(t, "a", [date |-> d, time |-> ""], None) /\ UNCHANGED storeFrame
  \/ \E t \in Types : set_type_enabled(t, TRUE) /\ UNCHANGED storeFrame
  \/ \E i \in Ids : dismiss_event(i, 1, FALSE, FALSE) /\ UNCHANGED storeFrame
  \/ Advance(HoursPerDay) /\ UNCHANGED storeFrame

SpecNotify == InitNotify /\ [][NextNotify]_vars

\* C38: the list _check_notifications broadcasts is the list
\* get_due_notifications returns for the same store at the same instant
\* (same entries, same order, same flags); it broadcasts nothing when that
\* list is empty, and also when get_due_notifications raises, in which case
\* it raises as well.
C38_BroadcastIsDueList ==
  [][trigger_check =>
       LET g == get_due_notifications(clock)
       IN /\ CheckDue(clock).raised = g.raised
          /\ IF g.raised \/ g.list = <<>>
             THEN broadcasted' = broadcasted
             ELSE broadcasted' = g.list]_vars

\* a broadcast of two events, the one created later due earlier
C38_Witness ==
  /\ Len(broadcasted) = 2
  /\ broadcasted[1].id > broadcasted[2].id
  /\ broadcasted[1].is_overdue /\ broadcasted[2].is_tomorrow
  /\ broadcasted = get_due_notifications(clock).list

\* -------------------------------------------------------------- SpecDrop
\* One viewer that reads slowly, one broadcasting thread: the queue fills,
\* the subscriber is removed, and its generator goes on.
MaxKeepalives == 1   \* keepalives a generator yields

Keepalives(s) ==
  LET IsKeepalive(x) == x.kind = "keepalive"
  IN Len(SelectSeq(yielded[s], IsKeepalive))

InitDrop ==
  InitConn /\ InitReqVars /\ InitSensorVars /\ InitSSEVars /\ InitNotifVars
    /\ InitReadVars /\ InitMoreVars

NextDrop ==
  \/ \E t \in {1} : BStart(t) /\ UNCHANGED sseFrame
  \/ \E t \in {1} : BPut(t) /\ UNCHANGED sseFrame
  \/ \E t \in {1} : BEnd(t) /\ UNCHANGED sseFrame
  \/ \E s \in {"s1"} : SubStart(s) /\ initial_message' = [initial_message EXCEPT ![s] = "connected"] /\ UNCHANGED <<sinit, yielded, streamFrame>>
  \/ \E s \in {"s1"} : SubRegister(s) /\ UNCHANGED sseFrame
  \/ \E s \in {"s1"} : SubInitial(s) /\ UNCHANGED streamFrame
  \/ \E s \in {"s1"} : sinit[s] /\ SubGet(s) /\ yielded' = [yielded EXCEPT ![s] = Append(@, Item("data", Head(queue[s])))] /\ UNCHANGED <<initial_message, sinit, streamFrame>>
  \/ \E s \in {"s1"} : Keepalives(s) < MaxKeepalives /\ SubKeepalive(s) /\ UNCHANGED streamFrame

SpecDrop == InitDrop /\ [][NextDrop]_vars

\* a removed subscriber is not listed again and its generator stays open
DroppedStaysOpenUnlisted ==
  \A s \in dropped : s \notin Range(subscribers) /\ spc[s] = "open"

\* nothing is put on the queue of a removed subscriber, and its generator
\* yields what the queue holds, in order, and keepalives (before them its
\* own initial message, when it was removed before it could yield it)
DroppedYieldsQueued ==
  \A s \in dropped :
    \/ queue'[s] = queue[s] /\ yielded'[s] = yielded[s]
    \/ /\ ~sinit[s]
       /\ queue'[s] = queue[s]
       /\ yielded'[s] = Append(yielded[s], Item("initial", initial_message[s]))
    \/ /\ queue[s] # <<>>
       /\ queue'[s] = Tail(queue[s])
       /\ yielded'[s] = Append(yielded[s], Item("data", Head(queue[s])))
    \/ /\ queue[s] = <<>>
       /\ queue'[s] = <<>>
       /\ yielded'[s] = Append(yielded[s], Keepalive)

====
